---- MODULE Spec2Model ----
(***************************************************************************)
(* A model of the htm-lisp evaluator (src/htm-lisp.js).                    *)
(*                                                                         *)
(* The evaluator walks a tree of elements.  Every element handler gets the *)
(* element and a scope {global, local}; both mappings go from a variable   *)
(* name to a Variable object (a cell).  Cells, arrays, objects and         *)
(* functions are JavaScript objects with identity, so the model keeps them *)
(* in heaps and values refer to them by index.  A scope object is only     *)
(* ever reachable from the handler that received it and from the handlers  *)
(* it is passed down to (functions do not capture a scope), so the model   *)
(* threads the scope through an evaluation and returns it with the result. *)
(*                                                                         *)
(* Strings are sequences of one-character strings, so that getInnerText,   *)
(* parseInt, toString and join are computed and not assumed.               *)
(***************************************************************************)
EXTENDS Integers, Sequences, FiniteSets

VARIABLES
    ROOT,      \* the children of the <htm-lisp> element (line 835), fixed for a run
    SCOPE,     \* the root scope object (lines 3-6)
    heap,      \* the objects of the JavaScript heap: cells, arrays, objects, functions
    console,   \* what went to console.log and console.error
    trace,     \* history: every entry to and exit from handleElement
    pc,        \* the top-level loop's position: index of the next child of ROOT
    exposed,   \* window.SCOPE has been set (line 855)
    input      \* the parameters ROOT was built from, fixed for a run

vars == <<ROOT, SCOPE, heap, console, trace, pc, exposed, input>>

----------------------------------------------------------------------------
(* Bounds of the model.                                                    *)

\* Largest number of BLOCKs nested around an operation in the programs.
MaxDepth == 2
\* Budget of handleElement calls for one top-level element (the host stack).
MaxSteps == 60
\* Largest stop value of a FOR loop in the programs.
MaxStop == 3
\* Longest array an IDX program builds.
MaxLen == 2

----------------------------------------------------------------------------
(* Characters and strings.                                                 *)

WhiteSpace == {" ", "\t", "\n"}

Digits == <<"0", "1", "2", "3", "4", "5", "6", "7", "8", "9">>

IsDigit(c) == \E i \in 1..10 : Digits[i] = c

DigitVal(c) == (CHOOSE i \in 1..10 : Digits[i] = c) - 1

RECURSIVE NatToString(_)
NatToString(n) ==
    IF n < 10 THEN <<Digits[n + 1]>>
    ELSE NatToString(n \div 10) \o <<Digits[(n % 10) + 1]>>

\* Number.prototype.toString for an integer.
IntToString(n) == IF n < 0 THEN <<"-">> \o NatToString(-n) ELSE NatToString(n)

RECURSIVE DigitsToNat(_, _)
DigitsToNat(s, acc) ==
    IF s = <<>> THEN acc
    ELSE DigitsToNat(Tail(s), acc * 10 + DigitVal(Head(s)))

RECURSIVE TrimLeft(_)
TrimLeft(s) ==
    IF s # <<>> /\ Head(s) \in WhiteSpace THEN TrimLeft(Tail(s)) ELSE s

RECURSIVE TrimRight(_)
TrimRight(s) ==
    IF s # <<>> /\ s[Len(s)] \in WhiteSpace
    THEN TrimRight(SubSeq(s, 1, Len(s) - 1)) ELSE s

\* String.prototype.trim.
Trim(s) == TrimRight(TrimLeft(s))

\* String.prototype.replaceAll(" ", "").
RemoveSpaces(s) == SelectSeq(s, LAMBDA c : c # " ")

AllDigits(s) == s # <<>> /\ \A i \in 1..Len(s) : IsDigit(s[i])

Unsigned(s) == IF s # <<>> /\ Head(s) \in {"-", "+"} THEN Tail(s) ELSE s

Negative(s) == s # <<>> /\ Head(s) = "-"

RECURSIVE DigitPrefix(_)
DigitPrefix(s) ==
    IF s # <<>> /\ IsDigit(Head(s)) THEN <<Head(s)>> \o DigitPrefix(Tail(s))
    ELSE <<>>

RECURSIVE JoinStrings(_, _)
JoinStrings(ss, sep) ==
    IF ss = <<>> THEN <<>>
    ELSE IF Len(ss) = 1 THEN ss[1]
    ELSE ss[1] \o sep \o JoinStrings(Tail(ss), sep)

----------------------------------------------------------------------------
(* JavaScript values.  Every value is a record of one shape: t is the      *)
(* type, n the number (or the heap index of an array, object or function,  *)
(* or 0/1 for a boolean), s the characters of a string.                    *)

Null      == [t |-> "null", n |-> 0, s |-> <<>>]
Undefined == [t |-> "undefined", n |-> 0, s |-> <<>>]
NaN       == [t |-> "nan", n |-> 0, s |-> <<>>]
Bool(b)   == [t |-> "bool", n |-> IF b THEN 1 ELSE 0, s |-> <<>>]
Num(n)    == [t |-> "num", n |-> n, s |-> <<>>]
Str(s)    == [t |-> "str", n |-> 0, s |-> s]
ListRef(i) == [t |-> "list", n |-> i, s |-> <<>>]
ObjRef(i)  == [t |-> "obj", n |-> i, s |-> <<>>]
FuncRef(i) == [t |-> "func", n |-> i, s |-> <<>>]

\* typeof x === "number"
IsNumber(v) == v.t \in {"num", "nan"}

----------------------------------------------------------------------------
(* Name -> cell mappings (the JavaScript objects scope.global, scope.local) *)

EmptyMap == [k \in {} |-> 0]

Has(m, k) == k \in DOMAIN m

Put(m, k, c) == [x \in (DOMAIN m) \cup {k} |-> IF x = k THEN c ELSE m[x]]

\* delete m[k]
Delete(m, k) == [x \in (DOMAIN m) \ {k} |-> m[x]]

\* {...a, ...b}: the entries of a, overridden by those of b.
Spread(a, b) ==
    [x \in (DOMAIN a) \cup (DOMAIN b) |-> IF x \in DOMAIN b THEN b[x] ELSE a[x]]

----------------------------------------------------------------------------
(* Conversions of the host language.                                       *)

S_null      == <<"n", "u", "l", "l">>
S_undefined == <<"u", "n", "d", "e", "f", "i", "n", "e", "d">>
S_true      == <<"t", "r", "u", "e">>
S_false     == <<"f", "a", "l", "s", "e">>
S_NaN       == <<"N", "a", "N">>
S_object    == <<"[", "o", "b", "j", "e", "c", "t", " ", "O", "b", "j", "e", "c", "t", "]">>
\* The text of a function is its source; the model keeps one word for it.
S_function  == <<"f", "u", "n", "c", "t", "i", "o", "n">>

\* The characters the model orders, in code-unit order.
CharOrder ==
    <<"\t", "\n", " ", "\"", "+", ",", "-",
      "0", "1", "2", "3", "4", "5", "6", "7", "8", "9", ":",
      "N", "O", "[", "]",
      "a", "b", "c", "d", "e", "f", "g", "h", "i", "j", "k", "l", "m", "n",
      "o", "p", "q", "r", "s", "t", "u", "v", "w", "x", "y", "z", "{", "}">>

CharCode(c) == CHOOSE i \in 1..Len(CharOrder) : CharOrder[i] = c

RECURSIVE StringLess(_, _)
StringLess(a, b) ==
    IF b = <<>> THEN FALSE
    ELSE IF a = <<>> THEN TRUE
    ELSE IF Head(a) = Head(b) THEN StringLess(Tail(a), Tail(b))
    ELSE CharCode(Head(a)) < CharCode(Head(b))

\* String(v): toString of a value; an array joins its elements with ",",
\* null and undefined elements giving the empty string.
RECURSIVE JsToString(_, _)
JsToString(v, h) ==
    CASE v.t = "null"      -> S_null
      [] v.t = "undefined" -> S_undefined
      [] v.t = "nan"       -> S_NaN
      [] v.t = "bool"      -> IF v.n = 1 THEN S_true ELSE S_false
      [] v.t = "num"       -> IntToString(v.n)
      [] v.t = "str"       -> v.s
      [] v.t = "list"      ->
            JoinStrings(
                [i \in 1..Len(h.lists[v.n]) |->
                    IF h.lists[v.n][i].t \in {"null", "undefined"} THEN <<>>
                    ELSE JsToString(h.lists[v.n][i], h)],
                <<",">>)
      [] v.t = "obj"       -> S_object
      [] v.t = "func"      -> S_function

\* Number(string), for decimal integers: surrounding white space is dropped,
\* the empty string is 0, anything else that is no integer is NaN.
StringToNumber(s) ==
    LET t == Trim(s) IN
    IF t = <<>> THEN Num(0)
    ELSE IF AllDigits(Unsigned(t))
         THEN Num(IF Negative(t) THEN 0 - DigitsToNat(Unsigned(t), 0)
                  ELSE DigitsToNat(Unsigned(t), 0))
         ELSE NaN

\* Number(v)
ToNumber(v, h) ==
    CASE v.t = "null"      -> Num(0)
      [] v.t = "undefined" -> NaN
      [] v.t = "nan"       -> NaN
      [] v.t = "bool"      -> Num(v.n)
      [] v.t = "num"       -> v
      [] v.t = "str"       -> StringToNumber(v.s)
      [] v.t = "list"      -> StringToNumber(JsToString(v, h))
      [] v.t = "obj"       -> NaN
      [] v.t = "func"      -> NaN

\* parseInt(v): the longest signed decimal prefix of String(v), else NaN.
parseInt(v, h) ==
    LET t == TrimLeft(JsToString(v, h))
        d == DigitPrefix(Unsigned(t))
    IN  IF d = <<>> THEN NaN
        ELSE Num(IF Negative(t) THEN 0 - DigitsToNat(d, 0) ELSE DigitsToNat(d, 0))

\* ToPrimitive: arrays, objects and functions become their strings.
ToPrimitive(v, h) ==
    IF v.t \in {"list", "obj", "func"} THEN Str(JsToString(v, h)) ELSE v

\* A truthiness under which arrays and objects are falsy.
Truthy_collectionsFalsy(v) ==
    CASE v.t \in {"null", "undefined", "nan", "list", "obj"} -> FALSE
      [] v.t = "bool" -> v.n = 1
      [] v.t = "num"  -> v.n # 0
      [] v.t = "str"  -> v.s # <<>>
      [] v.t = "func" -> TRUE

\* !!v
Truthy(v) ==
    CASE v.t \in {"null", "undefined", "nan"} -> FALSE
      [] v.t = "bool" -> v.n = 1
      [] v.t = "num"  -> v.n # 0
      [] v.t = "str"  -> v.s # <<>>
      [] v.t \in {"list", "obj", "func"} -> TRUE

\* a === b: arrays, objects and functions are equal when they are the same
\* object; NaN equals nothing.
StrictEquals(a, b) == a.t # "nan" /\ a = b

\* The abstract relational comparison a < b: "true", "false" or "undefined".
Less(a, b, h) ==
    LET pa == ToPrimitive(a, h)
        pb == ToPrimitive(b, h)
    IN  IF pa.t = "str" /\ pb.t = "str"
        THEN (IF StringLess(pa.s, pb.s) THEN "true" ELSE "false")
        ELSE LET na == ToNumber(pa, h)
                 nb == ToNumber(pb, h)
             IN  IF na.t = "nan" \/ nb.t = "nan" THEN "undefined"
                 ELSE IF na.n < nb.n THEN "true" ELSE "false"

JsLT(a, b, h) == Less(a, b, h) = "true"
JsGT(a, b, h) == Less(b, a, h) = "true"
JsLE(a, b, h) == Less(b, a, h) = "false"
JsGE(a, b, h) == Less(a, b, h) = "false"

\* a + b
JsAdd(a, b, h) ==
    LET pa == ToPrimitive(a, h)
        pb == ToPrimitive(b, h)
    IN  IF pa.t = "str" \/ pb.t = "str"
        THEN Str(JsToString(pa, h) \o JsToString(pb, h))
        ELSE LET na == ToNumber(pa, h)
                 nb == ToNumber(pb, h)
             IN  IF na.t = "nan" \/ nb.t = "nan" THEN NaN ELSE Num(na.n + nb.n)

\* a - b
JsSub(a, b, h) ==
    LET na == ToNumber(a, h)
        nb == ToNumber(b, h)
    IN  IF na.t = "nan" \/ nb.t = "nan" THEN NaN ELSE Num(na.n - nb.n)

\* JSON.stringify of a value: arrays recursively, undefined and function
\* elements as null; an object by its entries in insertion order.
RECURSIVE JsonStringify(_, _)
JsonStringify(v, h) ==
    CASE v.t \in {"null", "undefined", "nan", "func"} -> S_null
      [] v.t = "bool" -> IF v.n = 1 THEN S_true ELSE S_false
      [] v.t = "num"  -> IntToString(v.n)
      [] v.t = "str"  -> <<"\"">> \o v.s \o <<"\"">>
      [] v.t = "list" ->
            <<"[">> \o
            JoinStrings([i \in 1..Len(h.lists[v.n]) |->
                            JsonStringify(h.lists[v.n][i], h)], <<",">>)
            \o <<"]">>
      [] v.t = "obj"  ->
            <<"{">> \o
            JoinStrings([i \in 1..Len(h.objs[v.n]) |->
                            <<"\"">> \o h.objs[v.n][i].k \o <<"\"", ":">>
                            \o JsonStringify(h.objs[v.n][i].v, h)], <<",">>)
            \o <<"}">>

\* The property key a value is used as: its string.
PropertyKey(v, h) == JsToString(v, h)

\* index in array: the key is the canonical decimal form of an index below
\* the array's length.
IndexIn(key, list) ==
    \E i \in 0..(Len(list) - 1) : key = NatToString(i)

IndexOf(key) == DigitsToNat(key, 0)

----------------------------------------------------------------------------
(* Elements.  An element has a tag name, its innerHTML (text) and its      *)
(* child elements; an element of a program is named by its path, the       *)
(* child indexes leading to it from ROOT.                                  *)

E(tag, children) == [tag |-> tag, text |-> <<>>, children |-> children]
T(tag, text)     == [tag |-> tag, text |-> text, children |-> <<>>]

RECURSIVE Descend(_, _)
Descend(el, path) ==
    IF path = <<>> THEN el ELSE Descend(el.children[Head(path)], Tail(path))

NodeAt(path) == Descend(ROOT[Head(path)], Tail(path))

\* element.childElementCount
childElementCount(el) == Len(el.children)

----------------------------------------------------------------------------
(* The machine an evaluation runs on, and the results of its steps.        *)
(*   cells  the Variable objects: cells[c] is the value of cell c          *)
(*   lists  the arrays, objs the objects (entries in insertion order),     *)
(*   funcs  the functions FUNC has built                                   *)
(*   log    the lines of console.log                                       *)
(*   trace  the entries to and exits from handleElement                    *)
(*   steps  handleElement calls made for the current top-level element     *)
(*   depth  handleElement calls entered and not yet returned               *)
(* A result carries the value, the scope object the handler was given (as  *)
(* it is afterwards), the machine, and err: "" or the kind of the error    *)
(* thrown.                                                                 *)

Ok(val, scope, m)    == [val |-> val, scope |-> scope, m |-> m, err |-> ""]
Fail(kind, scope, m) == [val |-> Undefined, scope |-> scope, m |-> m, err |-> kind]

NewList(m, elems) == [m EXCEPT !.lists = Append(@, elems)]
NewObj(m)         == [m EXCEPT !.objs = Append(@, <<>>)]
NewFunc(m, f)     == [m EXCEPT !.funcs = Append(@, f)]

HasKey(entries, k) == \E i \in 1..Len(entries) : entries[i].k = k

\* object[k] = v
SetKey(entries, k, v) ==
    IF HasKey(entries, k)
    THEN [i \in 1..Len(entries) |->
            IF entries[i].k = k THEN [k |-> k, v |-> v] ELSE entries[i]]
    ELSE Append(entries, [k |-> k, v |-> v])

\* The elements a for-of or an index loop over v visits: the elements of an
\* array, the characters of a string.
Elements(v, m) ==
    CASE v.t = "list" -> m.lists[v.n]
      [] v.t = "str"  -> [i \in 1..Len(v.s) |-> Str(<<v.s[i]>>)]
      [] OTHER        -> <<>>

----------------------------------------------------------------------------
(* The utility functions (lines 659-832).                                  *)

\* new Variable(value) (lines 822-832): a fresh cell.
Variable(m, value) == [m EXCEPT !.cells = Append(@, value)]

\* A copy in which a name of both mappings keeps the global cell.
makeScope_globalWins(scope) ==
    [global |-> Spread(scope.local, scope.global), local |-> EmptyMap]

makeScope(scope) ==
    [global |-> Spread(scope.global, scope.local), local |-> EmptyMap]

getInnerText(el) ==
    IF Trim(el.text) = <<>> THEN Str(el.text)
    ELSE IF StringToNumber(el.text).t = "nan" THEN Str(el.text)
    ELSE StringToNumber(el.text)

\* The error requireChildrenCount throws, "" when it throws none.
requireChildrenCount(el, count, exact) ==
    IF exact /\ childElementCount(el) # count THEN "ArityError"
    ELSE IF childElementCount(el) < count THEN "ArityError"
    ELSE ""

\* [ok, val]: the value found, or ok = FALSE when the function throws.
getVariableValue(varName, scope, m) ==
    LET key == PropertyKey(varName, m) IN
    IF Has(scope.local, key) THEN [ok |-> TRUE, val |-> m.cells[scope.local[key]]]
    ELSE IF Has(scope.global, key)
         THEN [ok |-> TRUE, val |-> m.cells[scope.global[key]]]
         ELSE [ok |-> FALSE, val |-> Undefined]

\* updateVariableValue without its second test: a name bound only in
\* scope.global counts as undefined.
updateVariableValue_localOnly(varName, value, scope, m) ==
    LET key == PropertyKey(varName, m) IN
    IF Has(scope.local, key)
    THEN [ok |-> TRUE, m |-> [m EXCEPT !.cells[scope.local[key]] = value]]
    ELSE [ok |-> FALSE, m |-> m]

\* updateVariableValue that returns the value for a name with no cell
\* instead of throwing.
updateVariableValue_silent(varName, value, scope, m) ==
    LET key == PropertyKey(varName, m) IN
    IF Has(scope.local, key)
    THEN [ok |-> TRUE, m |-> [m EXCEPT !.cells[scope.local[key]] = value]]
    ELSE IF Has(scope.global, key)
         THEN [ok |-> TRUE, m |-> [m EXCEPT !.cells[scope.global[key]] = value]]
         ELSE [ok |-> TRUE, m |-> m]

\* [ok, m]: the machine after the write, or ok = FALSE when the function throws.
updateVariableValue(varName, value, scope, m) ==
    LET key == PropertyKey(varName, m) IN
    IF Has(scope.local, key)
    THEN [ok |-> TRUE, m |-> [m EXCEPT !.cells[scope.local[key]] = value]]
    ELSE IF Has(scope.global, key)
         THEN [ok |-> TRUE, m |-> [m EXCEPT !.cells[scope.global[key]] = value]]
         ELSE [ok |-> FALSE, m |-> m]

\* setLocalVariable that writes the cell the name already resolves to,
\* local or global, and makes a new cell only for a new name.
setLocalVariable_reusesVisible(scope, varName, value, m) ==
    LET key == PropertyKey(varName, m) IN
    IF Has(scope.local, key)
    THEN [scope |-> scope, m |-> [m EXCEPT !.cells[scope.local[key]] = value]]
    ELSE IF Has(scope.global, key)
         THEN [scope |-> scope, m |-> [m EXCEPT !.cells[scope.global[key]] = value]]
         ELSE [scope |-> [scope EXCEPT !.local = Put(@, key, Len(m.cells) + 1)],
               m |-> Variable(m, value)]

\* setLocalVariable that makes a new cell every time, also for a name the
\* local mapping has.
setLocalVariable_alwaysNew(scope, varName, value, m) ==
    [scope |-> [scope EXCEPT !.local = Put(@, PropertyKey(varName, m), Len(m.cells) + 1)],
     m |-> Variable(m, value)]

\* [scope, m]: the scope object and the machine after the call.
setLocalVariable(scope, varName, value, m) ==
    LET key == PropertyKey(varName, m) IN
    IF Has(scope.local, key)
    THEN [scope |-> scope, m |-> [m EXCEPT !.cells[scope.local[key]] = value]]
    ELSE [scope |-> [scope EXCEPT !.local = Put(@, key, Len(m.cells) + 1)],
          m |-> Variable(m, value)]

----------------------------------------------------------------------------
(* The evaluator: handleElement, the functions that evaluate children, and *)
(* the handlers of TAGS call one another.                                  *)

RECURSIVE handleElement(_, _, _)
RECURSIVE getAllValuesFrom(_, _, _, _, _, _)
RECURSIVE getDerivedValueFrom(_, _, _, _, _)
RECURSIVE forLoop(_, _, _, _, _, _, _)
RECURSIVE whileLoop(_, _, _, _)
RECURSIVE bindParameters(_, _, _, _, _)

\* The loop of getAllValues from child i on; vals are the values so far.
getAllValuesFrom(path, i, scope, m, limit, vals) ==
    IF i > childElementCount(NodeAt(path))
    THEN [vals |-> vals, scope |-> scope, m |-> m, err |-> ""]
    ELSE LET r == handleElement(path \o <<i>>, scope, m) IN
         IF r.err # ""
         THEN [vals |-> vals, scope |-> r.scope, m |-> r.m, err |-> r.err]
         ELSE IF limit # 0 /\ Len(vals) + 1 = limit
              THEN [vals |-> Append(vals, r.val), scope |-> r.scope,
                    m |-> r.m, err |-> ""]
              ELSE getAllValuesFrom(path, i + 1, r.scope, r.m, limit,
                                    Append(vals, r.val))

\* [vals, scope, m, err]: limit = 0 is no limit.
getAllValues(path, scope, m, limit) ==
    getAllValuesFrom(path, 1, scope, m, limit, <<>>)

\* The loop of getDerivedValue from child i on; value is the last value.
getDerivedValueFrom(path, i, scope, m, value) ==
    IF i > childElementCount(NodeAt(path)) THEN Ok(value, scope, m)
    ELSE LET r == handleElement(path \o <<i>>, scope, m) IN
         IF r.err # "" THEN r
         ELSE getDerivedValueFrom(path, i + 1, r.scope, r.m, r.val)

getDerivedValue(path, scope, m) == getDerivedValueFrom(path, 1, scope, m, Null)

getValue(path, scope, m) ==
    IF childElementCount(NodeAt(path)) # 0 THEN getDerivedValue(path, scope, m)
    ELSE Ok(getInnerText(NodeAt(path)), scope, m)

----------------------------------------------------------------------------
(* TAGS: variables, blocks, printing (lines 11-74).                        *)

TAGS_DEF(path, scope, m) ==
    IF requireChildrenCount(NodeAt(path), 2, FALSE) # ""
    THEN Fail("ArityError", scope, m)
    ELSE LET a == getAllValues(path, makeScope(scope), m, 2) IN
         IF a.err # "" THEN Fail(a.err, scope, a.m)
         ELSE LET w == setLocalVariable(scope, a.vals[1], a.vals[2], a.m)
              IN  Ok(a.vals[2], w.scope, w.m)

TAGS_MUT(path, scope, m) ==
    IF requireChildrenCount(NodeAt(path), 2, FALSE) # ""
    THEN Fail("ArityError", scope, m)
    ELSE LET a == getAllValues(path, makeScope(scope), m, 2) IN
         IF a.err # "" THEN Fail(a.err, scope, a.m)
         ELSE LET w == updateVariableValue(a.vals[1], a.vals[2], scope, a.m)
              IN  IF w.ok THEN Ok(a.vals[2], scope, w.m)
                  ELSE Fail("UndefinedVariable", scope, w.m)

TAGS_VAR(path, scope, m) ==
    LET v == getValue(path, makeScope(scope), m) IN
    IF v.err # "" THEN Fail(v.err, scope, v.m)
    ELSE LET g == getVariableValue(v.val, scope, v.m)
         IN  IF g.ok THEN Ok(g.val, scope, v.m)
             ELSE Fail("UndefinedVariable", scope, v.m)

\* A BLOCK whose value is always the derived value of its children: null
\* when it has none.
TAGS_BLOCK_derivedOnly(path, scope, m) ==
    LET v == getDerivedValue(path, makeScope(scope), m) IN
    IF v.err # "" THEN Fail(v.err, scope, v.m) ELSE Ok(v.val, scope, v.m)

TAGS_BLOCK(path, scope, m) ==
    LET v == getValue(path, makeScope(scope), m) IN
    IF v.err # "" THEN Fail(v.err, scope, v.m) ELSE Ok(v.val, scope, v.m)

\* One value of PRINT's children, as join renders it after the map that
\* turns typeof "object" values into JSON.
printedValue(v, m) ==
    IF v.t \in {"null", "list", "obj"} THEN JsonStringify(v, m)
    ELSE IF v.t = "undefined" THEN <<>>
    ELSE JsToString(v, m)

\* The sep attribute is absent in the programs of the model: sep ?? " ".
TAGS_PRINT(path, scope, m) ==
    IF childElementCount(NodeAt(path)) # 0
    THEN LET a == getAllValues(path, makeScope(scope), m, 0) IN
         IF a.err # "" THEN Fail(a.err, scope, a.m)
         ELSE LET output == JoinStrings(
                     [i \in 1..Len(a.vals) |-> printedValue(a.vals[i], a.m)],
                     <<" ">>)
              IN  Ok(Str(output), scope, [a.m EXCEPT !.log = Append(@, output)])
    ELSE LET output == getInnerText(NodeAt(path)) IN
         Ok(output, scope, [m EXCEPT !.log = Append(@, JsToString(output, m))])

TAGS_NOOP(path, scope, m) ==
    IF requireChildrenCount(NodeAt(path), 0, TRUE) # ""
    THEN Fail("ArityError", scope, m)
    ELSE Ok(Null, scope, m)

TAGS_INC(path, scope, m) ==
    IF requireChildrenCount(NodeAt(path), 2, TRUE) # ""
    THEN Fail("ArityError", scope, m)
    ELSE LET a == getAllValues(path, makeScope(scope), m, 2) IN
         IF a.err # "" THEN Fail(a.err, scope, a.m)
         ELSE LET g == getVariableValue(a.vals[1], scope, a.m) IN
              IF ~g.ok THEN Fail("UndefinedVariable", scope, a.m)
              ELSE LET value == JsAdd(g.val, a.vals[2], a.m)
                       w == updateVariableValue(a.vals[1], value, scope, a.m)
                   IN  IF w.ok THEN Ok(value, scope, w.m)
                       ELSE Fail("UndefinedVariable", scope, w.m)

TAGS_DEC(path, scope, m) ==
    IF requireChildrenCount(NodeAt(path), 2, TRUE) # ""
    THEN Fail("ArityError", scope, m)
    ELSE LET a == getAllValues(path, makeScope(scope), m, 2) IN
         IF a.err # "" THEN Fail(a.err, scope, a.m)
         ELSE LET g == getVariableValue(a.vals[1], scope, a.m) IN
              IF ~g.ok THEN Fail("UndefinedVariable", scope, a.m)
              ELSE LET value == JsSub(g.val, a.vals[2], a.m)
                       w == updateVariableValue(a.vals[1], value, scope, a.m)
                   IN  IF w.ok THEN Ok(value, scope, w.m)
                       ELSE Fail("UndefinedVariable", scope, w.m)

----------------------------------------------------------------------------
(* TAGS: types and booleans (lines 86-206).                                *)

TAGS_L(path, scope, m) ==
    IF requireChildrenCount(NodeAt(path), 0, TRUE) # ""
    THEN Fail("ArityError", scope, m)
    ELSE Ok(getInnerText(NodeAt(path)), scope, m)

TAGS_INT(path, scope, m) ==
    LET v == getValue(path, makeScope(scope), m) IN
    IF v.err # "" THEN Fail(v.err, scope, v.m)
    ELSE IF v.val.t = "str"
         THEN Ok(parseInt(Str(RemoveSpaces(v.val.s)), v.m), scope, v.m)
         ELSE Ok(parseInt(v.val, v.m), scope, v.m)

\* value.toString() throws a TypeError on null and undefined.
TAGS_STR(path, scope, m) ==
    LET v == getValue(path, makeScope(scope), m) IN
    IF v.err # "" THEN Fail(v.err, scope, v.m)
    ELSE IF v.val.t \in {"null", "undefined"} THEN Fail("TypeError", scope, v.m)
    ELSE Ok(Str(JsToString(v.val, v.m)), scope, v.m)

TAGS_LIST(path, scope, m) ==
    LET a == getAllValues(path, makeScope(scope), m, 0) IN
    IF a.err # "" THEN Fail(a.err, scope, a.m)
    ELSE Ok(ListRef(Len(a.m.lists) + 1), scope, NewList(a.m, a.vals))

TAGS_TRUE(path, scope, m) ==
    IF childElementCount(NodeAt(path)) # 0
    THEN LET v == getValue(path, makeScope(scope), m) IN
         IF v.err # "" THEN Fail(v.err, scope, v.m)
         ELSE Ok(Bool(Truthy(v.val)), scope, v.m)
    ELSE LET value == getInnerText(NodeAt(path)) IN
         Ok(Bool(value = Str(<<>>) \/ Truthy(value)), scope, m)

TAGS_FALSE(path, scope, m) ==
    IF childElementCount(NodeAt(path)) # 0
    THEN LET v == getValue(path, makeScope(scope), m) IN
         IF v.err # "" THEN Fail(v.err, scope, v.m)
         ELSE Ok(Bool(~Truthy(v.val)), scope, v.m)
    ELSE LET value == getInnerText(NodeAt(path)) IN
         Ok(Bool(value # Str(<<>>) /\ ~Truthy(value)), scope, m)

TAGS_NOT(path, scope, m) ==
    IF requireChildrenCount(NodeAt(path), 1, TRUE) # ""
    THEN Fail("ArityError", scope, m)
    ELSE LET v == getDerivedValue(path, makeScope(scope), m) IN
         IF v.err # "" THEN Fail(v.err, scope, v.m)
         ELSE Ok(Bool(~Truthy(v.val)), scope, v.m)

----------------------------------------------------------------------------
(* TAGS: arithmetic and comparisons (lines 217-338).                       *)

RECURSIVE reduceAdd(_, _, _)
reduceAdd(acc, values, m) ==
    IF values = <<>> THEN acc
    ELSE reduceAdd(JsAdd(acc, Head(values), m), Tail(values), m)

\* reduce without an initial value throws a TypeError on an empty array.
TAGS_ADD(path, scope, m) ==
    LET a == getAllValues(path, makeScope(scope), m, 0) IN
    IF a.err # "" THEN Fail(a.err, scope, a.m)
    ELSE IF a.vals = <<>> THEN Fail("TypeError", scope, a.m)
    ELSE Ok(reduceAdd(Head(a.vals), Tail(a.vals), a.m), scope, a.m)

\* The six comparisons: every child is evaluated, then the first value is
\* held against each other one; Fails(x, y, m) is the test that returns false.
comparison(path, scope, m, Fails(_, _, _)) ==
    IF requireChildrenCount(NodeAt(path), 2, FALSE) # ""
    THEN Fail("ArityError", scope, m)
    ELSE LET a == getAllValues(path, makeScope(scope), m, 0) IN
         IF a.err # "" THEN Fail(a.err, scope, a.m)
         ELSE Ok(Bool(\A i \in 2..Len(a.vals) : ~Fails(a.vals[1], a.vals[i], a.m)),
                 scope, a.m)

TAGS_EQ(path, scope, m) ==
    comparison(path, scope, m, LAMBDA x, y, h : ~StrictEquals(x, y))

TAGS_NE(path, scope, m) ==
    comparison(path, scope, m, LAMBDA x, y, h : StrictEquals(x, y))

\* A GT that holds each operand against the next one (a > b > c) instead of
\* the first against every other.
TAGS_GT_chained(path, scope, m) ==
    IF requireChildrenCount(NodeAt(path), 2, FALSE) # ""
    THEN Fail("ArityError", scope, m)
    ELSE LET a == getAllValues(path, makeScope(scope), m, 0) IN
         IF a.err # "" THEN Fail(a.err, scope, a.m)
         ELSE Ok(Bool(\A i \in 2..Len(a.vals) : JsGT(a.vals[i - 1], a.vals[i], a.m)),
                 scope, a.m)

TAGS_GT(path, scope, m) ==
    comparison(path, scope, m, LAMBDA x, y, h : ~JsGT(x, y, h))

TAGS_GTE(path, scope, m) ==
    comparison(path, scope, m, LAMBDA x, y, h : ~JsGE(x, y, h))

TAGS_LT(path, scope, m) ==
    comparison(path, scope, m, LAMBDA x, y, h : ~JsLT(x, y, h))

TAGS_LTE(path, scope, m) ==
    comparison(path, scope, m, LAMBDA x, y, h : ~JsLE(x, y, h))

----------------------------------------------------------------------------
(* TAGS: IF, FOR, WHILE (lines 351-415).                                   *)

\* An IF that evaluates both operands before it chooses.
TAGS_IF_eager(path, scope, m) ==
    IF requireChildrenCount(NodeAt(path), 2, FALSE) # ""
    THEN Fail("ArityError", scope, m)
    ELSE LET c == handleElement(path \o <<1>>, makeScope(scope), m) IN
         IF c.err # "" THEN Fail(c.err, scope, c.m)
         ELSE LET t == handleElement(path \o <<2>>, makeScope(scope), c.m) IN
              IF t.err # "" THEN Fail(t.err, scope, t.m)
              ELSE IF childElementCount(NodeAt(path)) >= 3
                   THEN LET e == handleElement(path \o <<3>>, makeScope(scope), t.m) IN
                        IF e.err # "" THEN Fail(e.err, scope, e.m)
                        ELSE Ok(IF Truthy(c.val) THEN t.val ELSE e.val, scope, e.m)
                   ELSE Ok(IF Truthy(c.val) THEN t.val ELSE Undefined, scope, t.m)

\* elseElement && handleElement(...): without a third child the value is
\* undefined.
TAGS_IF(path, scope, m) ==
    IF requireChildrenCount(NodeAt(path), 2, FALSE) # ""
    THEN Fail("ArityError", scope, m)
    ELSE LET c == handleElement(path \o <<1>>, makeScope(scope), m) IN
         IF c.err # "" THEN Fail(c.err, scope, c.m)
         ELSE IF Truthy(c.val)
              THEN LET t == handleElement(path \o <<2>>, makeScope(scope), c.m)
                   IN  [t EXCEPT !.scope = scope]
              ELSE IF childElementCount(NodeAt(path)) >= 3
                   THEN LET e == handleElement(path \o <<3>>, makeScope(scope), c.m)
                        IN  [e EXCEPT !.scope = scope]
                   ELSE Ok(Undefined, scope, c.m)

\* value && result.push(value) (lines 394 and 412)
accumulate(result, value) ==
    IF Truthy(value) THEN Append(result, value) ELSE result

\* The loop test with < for <=.
forCondition_strict(value, stop, m) == JsLT(value, stop, m)

\* scope.local[varName].value <= stop (line 392)
forCondition(value, stop, m) == JsLE(value, stop, m)

\* A loop that removes the loop variable also when the body throws, as a
\* finally would.
RECURSIVE forLoop_cleansUp(_, _, _, _, _, _, _)
forLoop_cleansUp(path, scope, m, key, stop, step, result) ==
    IF forCondition(m.cells[scope.local[key]], stop, m)
    THEN LET r == handleElement(path \o <<5>>, makeScope(scope), m) IN
         IF r.err # "" THEN Fail(r.err, [scope EXCEPT !.local = Delete(@, key)], r.m)
         ELSE LET m1 == [r.m EXCEPT !.lists[result] = accumulate(@, r.val)]
                  m2 == [m1 EXCEPT !.cells[scope.local[key]] = JsAdd(@, step, m1)]
              IN  forLoop_cleansUp(path, scope, m2, key, stop, step, result)
    ELSE Ok(ListRef(result), [scope EXCEPT !.local = Delete(@, key)], m)

\* The loop of line 392, entered at its test; key is the loop variable's
\* name and result the array the loop fills.
forLoop(path, scope, m, key, stop, step, result) ==
    IF forCondition(m.cells[scope.local[key]], stop, m)
    THEN LET r == handleElement(path \o <<5>>, makeScope(scope), m) IN
         IF r.err # "" THEN Fail(r.err, scope, r.m)
         ELSE LET m1 == [r.m EXCEPT !.lists[result] = accumulate(@, r.val)]
                  m2 == [m1 EXCEPT !.cells[scope.local[key]] = JsAdd(@, step, m1)]
              IN  forLoop(path, scope, m2, key, stop, step, result)
    ELSE Ok(ListRef(result), [scope EXCEPT !.local = Delete(@, key)], m)

TAGS_FOR(path, scope, m) ==
    IF requireChildrenCount(NodeAt(path), 5, TRUE) # ""
    THEN Fail("ArityError", scope, m)
    ELSE LET a == getAllValues(path, makeScope(scope), m, 4) IN
         IF a.err # "" THEN Fail(a.err, scope, a.m)
         ELSE LET m1 == NewList(a.m, <<>>)
                  w  == setLocalVariable(scope, a.vals[1], a.vals[2], m1)
              IN  forLoop(path, w.scope, w.m, PropertyKey(a.vals[1], m1),
                          a.vals[3], a.vals[4], Len(m1.lists))

\* A loop that evaluates every pass in the scope the first pass started
\* on: what a pass binds is gone on the next.
RECURSIVE whileLoop_freshScope(_, _, _, _)
whileLoop_freshScope(path, localScope, m, result) ==
    LET c == handleElement(path \o <<1>>, localScope, m) IN
    IF c.err # "" THEN c
    ELSE IF Truthy(c.val)
         THEN LET b == handleElement(path \o <<2>>, c.scope, c.m) IN
              IF b.err # "" THEN b
              ELSE whileLoop_freshScope(path, localScope,
                             [b.m EXCEPT !.lists[result] = accumulate(@, b.val)],
                             result)
         ELSE Ok(ListRef(result), c.scope, c.m)

\* The loop of line 410, entered at its test.
whileLoop(path, localScope, m, result) ==
    LET c == handleElement(path \o <<1>>, localScope, m) IN
    IF c.err # "" THEN c
    ELSE IF Truthy(c.val)
         THEN LET b == handleElement(path \o <<2>>, c.scope, c.m) IN
              IF b.err # "" THEN b
              ELSE whileLoop(path, b.scope,
                             [b.m EXCEPT !.lists[result] = accumulate(@, b.val)],
                             result)
         ELSE Ok(ListRef(result), c.scope, c.m)

TAGS_WHILE(path, scope, m) ==
    IF requireChildrenCount(NodeAt(path), 2, TRUE) # ""
    THEN Fail("ArityError", scope, m)
    ELSE LET m1 == NewList(m, <<>>)
             r  == whileLoop(path, makeScope(scope), m1, Len(m1.lists))
         IN  [r EXCEPT !.scope = scope]

----------------------------------------------------------------------------
(* TAGS: lists and objects (lines 468-600).                                *)

\* String.prototype.charAt: the index as an integer, NaN as 0; the empty
\* string outside the string.
charAt(s, index, m) ==
    LET n == ToNumber(index, m)
        i == IF n.t = "nan" THEN 0 ELSE n.n
    IN  IF i >= 0 /\ i < Len(s) THEN Str(<<s[i + 1]>>) ELSE Str(<<>>)

\* An assignment that writes a copy of the array and leaves the array alone.
setIndex_copy(m, id, k, value) ==
    [m EXCEPT !.lists = Append(@, [m.lists[id] EXCEPT ![k] = value])]

\* iterable[index] = value: the array itself is written.
setIndex(m, id, k, value) == [m EXCEPT !.lists[id][k] = value]

TAGS_IDX(path, scope, m) ==
    IF requireChildrenCount(NodeAt(path), 2, FALSE) # ""
    THEN Fail("ArityError", scope, m)
    ELSE LET a == getAllValues(path, makeScope(scope), m, 2) IN
         IF a.err # "" THEN Fail(a.err, scope, a.m)
         ELSE LET iterable == a.vals[1]
                  index    == a.vals[2]
                  key      == PropertyKey(index, a.m)
              IN
              IF iterable.t = "list"
              THEN IF IndexIn(key, a.m.lists[iterable.n])
                   THEN IF childElementCount(NodeAt(path)) >= 3
                        THEN LET r == handleElement(path \o <<3>>, makeScope(scope), a.m)
                             IN  IF r.err # "" THEN Fail(r.err, scope, r.m)
                                 ELSE LET w == setIndex(r.m, iterable.n, IndexOf(key) + 1, r.val)
                                      IN  Ok(w.lists[iterable.n][IndexOf(key) + 1], scope, w)
                        ELSE Ok(a.m.lists[iterable.n][IndexOf(key) + 1], scope, a.m)
                   ELSE Fail("IndexOutOfBounds", scope, a.m)
              ELSE IF iterable.t = "str"
                   THEN IF JsLT(index, Num(Len(iterable.s)), a.m)
                        THEN Ok(charAt(iterable.s, index, a.m), scope, a.m)
                        ELSE Fail("IndexOutOfBounds", scope, a.m)
                   ELSE Fail("TypeMismatch", scope, a.m)

\* result[pair[0]] = pair[1] for every pair, in order.
RECURSIVE objFill(_, _, _)
objFill(entries, pairs, m) ==
    IF pairs = <<>> THEN entries
    ELSE objFill(SetKey(entries, PropertyKey(m.lists[Head(pairs).n][1], m),
                        m.lists[Head(pairs).n][2]),
                 Tail(pairs), m)

\* for-of over a value that is neither an array nor a string throws a
\* TypeError; the first element that is no pair stops the loop.
TAGS_OBJ(path, scope, m) ==
    IF requireChildrenCount(NodeAt(path), 1, FALSE) # ""
    THEN Fail("ArityError", scope, m)
    ELSE LET v == getValue(path, makeScope(scope), NewObj(m)) IN
         IF v.err # "" THEN Fail(v.err, scope, v.m)
         ELSE IF v.val.t \notin {"list", "str"} THEN Fail("TypeError", scope, v.m)
         ELSE LET pairs == Elements(v.val, v.m)
                  id    == Len(m.objs) + 1
              IN  IF \E i \in 1..Len(pairs) :
                        \/ pairs[i].t # "list"
                        \/ Len(v.m.lists[pairs[i].n]) # 2
                  THEN Fail("InvalidArgument", scope, v.m)
                  ELSE Ok(ObjRef(id), scope,
                          [v.m EXCEPT !.objs[id] = objFill(<<>>, pairs, v.m)])

TAGS_TUPLE(path, scope, m) ==
    IF requireChildrenCount(NodeAt(path), 2, TRUE) # ""
    THEN Fail("ArityError", scope, m)
    ELSE LET a == getAllValues(path, makeScope(scope), m, 2) IN
         IF a.err # "" THEN Fail(a.err, scope, a.m)
         ELSE Ok(ListRef(Len(a.m.lists) + 1), scope, NewList(a.m, a.vals))

----------------------------------------------------------------------------
(* TAGS: functions (lines 611-639).                                        *)

\* The function FUNC returns keeps parameters and operation, nothing else.
TAGS_FUNC(path, scope, m) ==
    IF requireChildrenCount(NodeAt(path), 2, TRUE) # ""
    THEN Fail("ArityError", scope, m)
    ELSE LET p == handleElement(path \o <<1>>, makeScope(scope), m) IN
         IF p.err # "" THEN Fail(p.err, scope, p.m)
         ELSE Ok(FuncRef(Len(p.m.funcs) + 1), scope,
                 NewFunc(p.m, [parameters |-> p.val, operation |-> path \o <<2>>]))

\* A function scope that takes the caller's global mapping and leaves out
\* the caller's local one.
functionScope_globalOnly(scope) == [global |-> scope.global, local |-> EmptyMap]

\* const localScope = makeScope(scope) (line 616): scope is the scope the
\* function is called with.
functionScope(scope) == makeScope(scope)

\* The loop of lines 617-618 from parameter i on; a missing argument is
\* undefined.
bindParameters(parameters, args, i, localScope, m) ==
    IF i > Len(parameters) THEN [scope |-> localScope, m |-> m]
    ELSE LET w == setLocalVariable(localScope, parameters[i],
                                   IF i <= Len(args) THEN args[i] ELSE Undefined, m)
         IN  bindParameters(parameters, args, i + 1, w.scope, w.m)

\* The function body of lines 615-620, called with scope and args.
callFunction(f, scope, args, m) ==
    LET b == bindParameters(Elements(f.parameters, m), args, 1,
                            functionScope(scope), m)
        r == handleElement(f.operation, b.scope, b.m)
    IN  [r EXCEPT !.scope = scope]

\* Calling a value that is no function throws a TypeError.
TAGS_CALL(path, scope, m) ==
    IF requireChildrenCount(NodeAt(path), 1, FALSE) # ""
    THEN Fail("ArityError", scope, m)
    ELSE LET f == handleElement(path \o <<1>>, makeScope(scope), m) IN
         IF f.err # "" THEN Fail(f.err, scope, f.m)
         ELSE IF childElementCount(NodeAt(path)) >= 2
              THEN LET v == handleElement(path \o <<2>>, makeScope(scope), f.m) IN
                   IF v.err # "" THEN Fail(v.err, scope, v.m)
                   ELSE IF v.val.t # "list" THEN Fail("InvalidArgument", scope, v.m)
                   ELSE IF f.val.t # "func" THEN Fail("TypeError", scope, v.m)
                   ELSE callFunction(v.m.funcs[f.val.n], scope, v.m.lists[v.val.n], v.m)
              ELSE IF f.val.t # "func" THEN Fail("TypeError", scope, f.m)
                   ELSE callFunction(f.m.funcs[f.val.n], scope, <<>>, f.m)

----------------------------------------------------------------------------
(* handleElement (lines 815-819).                                          *)

\* The tags of TAGS the model gives no handler; no program of the model
\* uses them.
OtherTags ==
    {"CONCAT", "FLOAT", "BOOL", "AND", "OR", "SUB", "MUL", "DIV", "MOD", "POW",
     "SPLIT", "MAP", "FILTER", "REDUCE", "LEN", "APPEND", "FST", "LST",
     "SLICE", "KEY", "HAS-KEY", "READ"}

TAGS(tag, path, scope, m) ==
    CASE tag = "DEF"   -> TAGS_DEF(path, scope, m)
      [] tag = "MUT"   -> TAGS_MUT(path, scope, m)
      [] tag = "VAR"   -> TAGS_VAR(path, scope, m)
      [] tag = "BLOCK" -> TAGS_BLOCK(path, scope, m)
      [] tag = "PRINT" -> TAGS_PRINT(path, scope, m)
      [] tag = "NOOP"  -> TAGS_NOOP(path, scope, m)
      [] tag = "INC"   -> TAGS_INC(path, scope, m)
      [] tag = "DEC"   -> TAGS_DEC(path, scope, m)
      [] tag = "L"     -> TAGS_L(path, scope, m)
      [] tag = "INT"   -> TAGS_INT(path, scope, m)
      [] tag = "STR"   -> TAGS_STR(path, scope, m)
      [] tag = "LIST"  -> TAGS_LIST(path, scope, m)
      [] tag = "TRUE"  -> TAGS_TRUE(path, scope, m)
      [] tag = "FALSE" -> TAGS_FALSE(path, scope, m)
      [] tag = "NOT"   -> TAGS_NOT(path, scope, m)
      [] tag = "ADD"   -> TAGS_ADD(path, scope, m)
      [] tag = "EQ"    -> TAGS_EQ(path, scope, m)
      [] tag = "NE"    -> TAGS_NE(path, scope, m)
      [] tag = "GT"    -> TAGS_GT(path, scope, m)
      [] tag = "GTE"   -> TAGS_GTE(path, scope, m)
      [] tag = "LT"    -> TAGS_LT(path, scope, m)
      [] tag = "LTE"   -> TAGS_LTE(path, scope, m)
      [] tag = "IF"    -> TAGS_IF(path, scope, m)
      [] tag = "FOR"   -> TAGS_FOR(path, scope, m)
      [] tag = "WHILE" -> TAGS_WHILE(path, scope, m)
      [] tag = "IDX"   -> TAGS_IDX(path, scope, m)
      [] tag = "OBJ"   -> TAGS_OBJ(path, scope, m)
      [] tag = "TUPLE" -> TAGS_TUPLE(path, scope, m)
      [] tag = "FUNC"  -> TAGS_FUNC(path, scope, m)
      [] tag = "CALL"  -> TAGS_CALL(path, scope, m)
      [] tag \in OtherTags -> Fail("NotModelled", scope, m)
      [] OTHER         -> Fail("UnknownOperation", scope, m)

\* An entry of the trace: the scope object of the call as it is then, the
\* values of the cells then, and how deep in calls of handleElement it is.
Event(ev, path, r) ==
    [ev |-> ev, path |-> path, val |-> r.val, err |-> r.err, scope |-> r.scope,
     cells |-> r.m.cells, depth |-> r.m.depth]

\* The machine once the call of handleElement on the element is entered.
recordEnter(path, scope, m) ==
    [m EXCEPT !.steps = @ + 1,
              !.depth = @ + 1,
              !.trace = Append(@, Event("enter", path,
                                        Ok(Undefined, scope, [m EXCEPT !.depth = @ + 1])))]

\* The outcome r of the call, with its return (or throw) recorded.
recordExit(path, r) ==
    [r EXCEPT !.m.trace = Append(@, Event("exit", path, r)),
              !.m.depth = @ - 1]

\* Every call is recorded in the trace on entry and on return (or throw);
\* a call beyond the budget of MaxSteps fails like an exhausted stack.
handleElement(path, scope, m) ==
    IF m.steps >= MaxSteps THEN Fail("OutOfBudget", scope, m)
    ELSE recordExit(path, TAGS(NodeAt(path).tag, path, scope,
                               recordEnter(path, scope, m)))

----------------------------------------------------------------------------
(* Writing programs.                                                       *)

Lit(text)      == T("L", text)
IntLit(n)       == T("INT", IntToString(n))
Noop         == E("NOOP", <<>>)
Def(name, value) == E("DEF", <<Lit(name), value>>)
Mut(name, value) == E("MUT", <<Lit(name), value>>)
Inc(name, value) == E("INC", <<Lit(name), value>>)
Dec(name, value) == E("DEC", <<Lit(name), value>>)
Var(name)    == E("VAR", <<Lit(name)>>)
Block(ops)   == E("BLOCK", ops)
PrintOf(ops)   == E("PRINT", ops)
List(ops)    == E("LIST", ops)
For(name, start, stop, step, body) ==
    E("FOR", <<Lit(name), start, stop, step, body>>)
Func(params, body) == E("FUNC", <<params, body>>)
Call(fn, args)     == E("CALL", <<fn, args>>)
If(c, t, e)        == E("IF", <<c, t, e>>)
Idx(l, i, v)       == E("IDX", <<l, i, v>>)

\* op inside d BLOCKs, each holding only the next.
RECURSIVE Nest(_, _)
Nest(d, op) == IF d = 0 THEN op ELSE Block(<<Nest(d - 1, op)>>)

\* The operations as the top-level elements (wrap = 0) or as the operands
\* of one top-level BLOCK (wrap = 1).
Wrap(wrap, ops) == IF wrap = 0 THEN ops ELSE <<Block(ops)>>

\* The path of operation i of Wrap(wrap, ops).
WrapPath(wrap, i) == IF wrap = 0 THEN <<i>> ELSE <<1, i>>

\* The path of op in Nest(d, op) placed at path.
NestPath(path, d) == path \o [i \in 1..d |-> 1]

vx == <<"x">>
vy == <<"y">>

\* The numbers a program writes into variables.
Vals == 0..2

Input(kind, depth, wrap, a, b, c) ==
    [kind |-> kind, depth |-> depth, wrap |-> wrap, a |-> a, b |-> b, c |-> c]

\* Cell sharing: DEF x a; MUT x b inside depth nested BLOCKs; VAR x.
ShareInputs ==
    {Input("share", d, w, a, b, 0) :
        d \in 1..MaxDepth, w \in 0..1, a \in Vals, b \in Vals}

ShareProgram(in) ==
    Wrap(in.wrap,
         <<Def(vx, IntLit(in.a)), Nest(in.depth, Mut(vx, IntLit(in.b))), Var(vx)>>)

\* The operation a shadowing BLOCK applies to its own x: none, MUT, INC, DEC.
ShadowOp(c) ==
    CASE c = 0 -> Noop
      [] c = 1 -> Mut(vx, IntLit(7))
      [] c = 2 -> Inc(vx, IntLit(1))
      [] c = 3 -> Dec(vx, IntLit(1))

\* Shadowing: DEF x a; BLOCK(DEF x b; an operation on x and VAR x, both
\* inside depth - 1 further BLOCKs); VAR x.
ShadowInputs ==
    {Input("shadow", d, w, a, b, c) :
        d \in 1..MaxDepth, w \in 0..1, a \in Vals, b \in Vals, c \in 0..3}

ShadowProgram(in) ==
    Wrap(in.wrap,
         <<Def(vx, IntLit(in.a)),
           Block(<<Def(vx, IntLit(in.b)),
                   Nest(in.depth - 1, ShadowOp(in.c)),
                   Nest(in.depth - 1, Var(vx))>>),
           Var(vx)>>)

vf == <<"f">>

\* Functions: f is built where x is a (c = 0: next to a DEF x a of the
\* enclosing scope; c = 1: inside a BLOCK with its own DEF x a), called
\* inside depth BLOCKs of which the innermost has DEF x b, and called again
\* where f was defined.
DynamicInputs ==
    {Input("dynamic", d, w, a, b, c) :
        d \in 1..MaxDepth, w \in 0..1, a \in Vals, b \in Vals, c \in 0..1}

DynamicProgram(in) ==
    Wrap(in.wrap,
         <<IF in.c = 0 THEN Def(vx, IntLit(in.a)) ELSE Noop,
           Def(vf, IF in.c = 0 THEN Func(List(<<>>), Var(vx))
                  ELSE Block(<<Def(vx, IntLit(in.a)), Func(List(<<>>), Var(vx))>>)),
           Nest(in.depth - 1,
                Block(<<Def(vx, IntLit(in.b)), Call(Var(vf), List(<<>>))>>)),
           E("CALL", <<Var(vf)>>)>>)

vi == <<"i">>
vz == <<"z">>

\* FOR: for(i, a, b, c, print(var i)), then a lookup of i.
ForInputs ==
    {Input("for", 0, w, a, b, c) : w \in 0..1, a \in 0..2, b \in 0..MaxStop, c \in 1..2}

ForProgram(in) ==
    Wrap(in.wrap,
         <<For(vi, IntLit(in.a), IntLit(in.b), IntLit(in.c), PrintOf(<<Var(vi)>>)),
           Var(vi)>>)

\* An element that throws: an undefined variable, an unknown tag, a DEF
\* with one child, an index outside an array, a BLOCK that throws after a
\* DEF of its own, a FOR whose body throws.
Thrower(c) ==
    CASE c = 0 -> Var(vz)
      [] c = 1 -> E("BOGUS", <<>>)
      [] c = 2 -> E("DEF", <<Lit(vx)>>)
      [] c = 3 -> E("IDX", <<List(<<>>), IntLit(0)>>)
      [] c = 4 -> Block(<<Def(vz, IntLit(5)), Var(vi)>>)
      [] c = 5 -> For(vi, IntLit(0), IntLit(1), IntLit(1), Var(vz))

ThrowerError(c) ==
    CASE c = 0 -> "UndefinedVariable"
      [] c = 1 -> "UnknownOperation"
      [] c = 2 -> "ArityError"
      [] c = 3 -> "IndexOutOfBounds"
      [] c = 4 -> "UndefinedVariable"
      [] c = 5 -> "UndefinedVariable"

InsertAt(seq, k, e) == SubSeq(seq, 1, k - 1) \o <<e>> \o SubSeq(seq, k, Len(seq))

\* Top level: DEF x a; DEF y b; VAR x; VAR y with a throwing element put in
\* as the element number depth.
TopLevelInputs ==
    {Input("toplevel", d, 0, a, b, c) : d \in 1..5, a \in 1..2, b \in 1..2, c \in 0..5}

TopLevelProgram(in) ==
    InsertAt(<<Def(vx, IntLit(in.a)), Def(vy, IntLit(in.b)), Var(vx), Var(vy)>>,
             in.depth, Thrower(in.c))

\* An operation on the name y, which has no cell: VAR, MUT, INC, DEC.
UndefOp(c) ==
    CASE c = 0 -> Var(vy)
      [] c = 1 -> Mut(vy, IntLit(5))
      [] c = 2 -> Inc(vy, IntLit(5))
      [] c = 3 -> Dec(vy, IntLit(5))

\* Undefined variable: DEF x a; for b > 0 a BLOCK with its own DEF y b, over
\* by then; the operation on y inside depth BLOCKs; VAR x.
UndefInputs ==
    {Input("undef", d, w, a, b, c) :
        d \in 0..MaxDepth, w \in 0..1, a \in 1..2, b \in 0..1, c \in 0..3}

UndefProgram(in) ==
    Wrap(in.wrap,
         <<Def(vx, IntLit(in.a)),
           IF in.b = 0 THEN Noop ELSE Block(<<Def(vy, IntLit(in.b))>>),
           Nest(in.depth, UndefOp(in.c)),
           Var(vx)>>)

\* A branch of an IF: a literal, a lookup that throws, a write of x.
Branch(k, text, n) ==
    CASE k = 0 -> Lit(text)
      [] k = 1 -> Var(vy)
      [] k = 2 -> Mut(vx, IntLit(n))

\* IF: DEF x 1; inside depth BLOCKs an IF whose condition is the number a,
\* with then branch b and else branch c (c = 3: no else); VAR x.  With
\* a = 2 the IF is the body of a FOR over 0..2 and its condition is the
\* loop variable.
IfInputs ==
    {Input("if", d, w, a, b, c) :
        d \in 0..MaxDepth, w \in 0..1, a \in 0..2, b \in 0..2, c \in 0..3}

IfElement(in) ==
    LET cond == IF in.a = 2 THEN Var(vi) ELSE IntLit(in.a) IN
    IF in.c = 3
    THEN E("IF", <<cond, Branch(in.b, <<"t">>, 5)>>)
    ELSE If(cond, Branch(in.b, <<"t">>, 5), Branch(in.c, <<"e">>, 6))

IfProgram(in) ==
    Wrap(in.wrap,
         <<Def(vx, IntLit(1)),
           Nest(in.depth,
                IF in.a = 2
                THEN For(vi, IntLit(0), IntLit(2), IntLit(1), IfElement(in))
                ELSE IfElement(in)),
           Var(vx)>>)

\* Conditions of every type: null, the booleans, numbers, NaN, strings,
\* arrays, objects, a function.
Conditions ==
    <<Noop, T("TRUE", <<>>), T("FALSE", <<>>), IntLit(0), IntLit(1), IntLit(-1),
      T("INT", <<"a">>), Lit(<<>>), Lit(<<"a">>), Lit(<<" ">>),
      List(<<>>), List(<<IntLit(0)>>),
      E("OBJ", <<List(<<>>)>>),
      E("OBJ", <<List(<<E("TUPLE", <<Lit(<<"k">>), IntLit(0)>>)>>)>>),
      Func(List(<<>>), Noop)>>

\* Truthiness: IF with condition number a of Conditions, with (c = 1) or
\* without (c = 0) an else, inside depth BLOCKs.
TruthyInputs ==
    {Input("truthy", d, w, a, 0, c) :
        d \in 0..MaxDepth, w \in 0..1, a \in 1..Len(Conditions), c \in 0..1}

TruthyProgram(in) ==
    Wrap(in.wrap,
         <<Nest(in.depth,
                IF in.c = 1 THEN If(Conditions[in.a], Lit(<<"t">>), Lit(<<"e">>))
                ELSE E("IF", <<Conditions[in.a], Lit(<<"t">>)>>))>>)

\* The array of the IDX programs: 10, 20, ...
Original(n) == [k \in 1..n |-> 10 * k]

\* IDX: x and y hold one array of depth elements; IDX writes element a
\* through y, the new value being MUT z b; then x is read at a.
IdxInputs ==
    {Input("idx", n, w, a, b, 0) :
        n \in 0..MaxLen, w \in 0..1, a \in (0 - 1)..(MaxLen + 1), b \in 1..2}

IdxProgram(in) ==
    Wrap(in.wrap,
         <<Def(vx, List([k \in 1..in.depth |-> IntLit(Original(in.depth)[k])])),
           Def(vy, Var(vx)),
           Def(vz, IntLit(0)),
           Idx(Var(vy), IntLit(in.a), Mut(vz, IntLit(in.b))),
           Var(vz),
           E("IDX", <<Var(vx), IntLit(in.a)>>)>>)

\* Results of a loop body: 0, the empty string, false, null, 5, "a".
BodyResults ==
    <<IntLit(0), Lit(<<>>), T("FALSE", <<>>), Noop, IntLit(5), Lit(<<"a">>)>>

\* Accumulation: x is the array of results a and b; for(i, 0, 1, 1,
\* idx(var x, var i)).
AccInputs ==
    {Input("acc", 0, w, a, b, 0) :
        w \in 0..1, a \in 1..Len(BodyResults), b \in 1..Len(BodyResults)}

AccProgram(in) ==
    Wrap(in.wrap,
         <<Def(vx, List(<<BodyResults[in.a], BodyResults[in.b]>>)),
           For(vi, IntLit(0), IntLit(1), IntLit(1), E("IDX", <<Var(vx), Var(vi)>>))>>)

\* The comparison handlers, in the order of the source.
CmpTags == <<"EQ", "NE", "GT", "GTE", "LT", "LTE">>

\* Operands of a comparison: the numbers 0, 1, 2 and the string "1".
CmpValues == <<IntLit(0), IntLit(1), IntLit(2), E("STR", <<IntLit(1)>>)>>

\* The variable operand number k of a comparison writes.
CmpNames == <<vx, vy, vz>>

\* The operands a, b, c that are present (0: absent), each a MUT that
\* writes its value into its own variable.
CmpOperands(in) ==
    LET ks == SelectSeq(<<in.a, in.b, in.c>>, LAMBDA k : k # 0) IN
    [j \in 1..Len(ks) |-> Mut(CmpNames[j], CmpValues[ks[j]])]

\* Comparisons: DEF x 9; DEF y 9; DEF z 9; comparison number depth of
\* CmpTags over zero to three operands; VAR x; VAR y; VAR z.
CmpInputs ==
    {in \in {Input("cmp", op, w, a, b, c) :
                op \in 1..Len(CmpTags), w \in 0..1,
                a \in 0..Len(CmpValues), b \in 0..Len(CmpValues),
                c \in 0..Len(CmpValues)} :
        (in.a = 0 => in.b = 0) /\ (in.b = 0 => in.c = 0)}

CmpProgram(in) ==
    Wrap(in.wrap,
         <<Def(vx, IntLit(9)), Def(vy, IntLit(9)), Def(vz, IntLit(9)),
           E(CmpTags[in.depth], CmpOperands(in)),
           Var(vx), Var(vy), Var(vz)>>)

\* The BLOCK of the block programs: without child elements and with empty,
\* blank or numeric text (c = 0, 1, 2), or with one to three operands.
BlockUnderTest(in) ==
    CASE in.c = 0 -> Block(<<>>)
      [] in.c = 1 -> T("BLOCK", <<" ">>)
      [] in.c = 2 -> T("BLOCK", <<"7">>)
      [] in.c = 3 -> Block(<<IntLit(in.a)>>)
      [] in.c = 4 -> Block(<<Def(vy, IntLit(in.a)), IntLit(in.b)>>)
      [] in.c = 5 -> Block(<<Def(vy, IntLit(in.a)), Mut(vx, IntLit(in.b)), Var(vy)>>)
      [] in.c = 6 -> Block(<<Def(vy, IntLit(in.a)), Noop>>)

\* Blocks: DEF x 0; the BLOCK inside depth further BLOCKs; VAR x; VAR y.
BlockInputs ==
    {Input("block", d, w, a, b, c) :
        d \in 0..MaxDepth, w \in 0..1, a \in Vals, b \in Vals, c \in 0..6}

BlockProgram(in) ==
    Wrap(in.wrap,
         <<Def(vx, IntLit(0)), Nest(in.depth, BlockUnderTest(in)), Var(vx), Var(vy)>>)

While(c, b) == E("WHILE", <<c, b>>)

\* WHILE with a passes of the body.  c = 0: DEF x 0; while(lte(inc(x, 1),
\* a), def(y, var x)): the body is the DEF.  c = 1: DEF x a + 1;
\* while(def(y, dec(x, 1)), var y): the condition is the DEF.  Then VAR y and
\* VAR x.  The WHILE is inside depth BLOCKs.
WhileInputs ==
    {Input("while", d, w, a, 0, c) :
        d \in 0..1, w \in 0..1, a \in 0..MaxStop, c \in 0..1}

WhileProgram(in) ==
    Wrap(in.wrap,
         <<Def(vx, IntLit(IF in.c = 0 THEN 0 ELSE in.a + 1)),
           Nest(in.depth,
                IF in.c = 0
                THEN While(E("LTE", <<Inc(vx, IntLit(1)), IntLit(in.a)>>),
                           Def(vy, Var(vx)))
                ELSE While(Def(vy, Dec(vx, IntLit(1))), Var(vy))),
           Var(vy),
           Var(vx)>>)

\* A FOR whose body fails on the pass where i = b: DEF i 7 when c = 1;
\* inside depth BLOCKs for(i, a, MaxStop, 1, if(eq(var i, b), var z, var i));
\* VAR i.  With b outside a..MaxStop no pass fails.
ForFailInputs ==
    {Input("forfail", d, 0, a, b, c) :
        d \in 0..MaxDepth, a \in 0..1, b \in 0..(MaxStop + 1), c \in 0..1}

ForFailProgram(in) ==
    <<IF in.c = 1 THEN Def(vi, IntLit(7)) ELSE Noop,
      Nest(in.depth,
           For(vi, IntLit(in.a), IntLit(MaxStop), IntLit(1),
               If(E("EQ", <<Var(vi), IntLit(in.b)>>), Var(vz), Var(vi)))),
      Var(vi)>>

\* A FOR over a name that is bound already.  c = 0: DEF i 7; for; VAR i
\* (bound locally).  c = 1: DEF i 7; BLOCK(DEF i 8; for; VAR i); VAR i
\* (bound locally and outside).  c = 2: DEF i 7; BLOCK(for; VAR i); VAR i
\* (bound outside only).  The FOR is for(i, a, b, 1, var i).
ForNameInputs ==
    {Input("forname", 0, w, a, b, c) :
        w \in 0..1, a \in 0..2, b \in 0..MaxStop, c \in 0..2}

ForNameLoop(in) == For(vi, IntLit(in.a), IntLit(in.b), IntLit(1), Var(vi))

ForNameProgram(in) ==
    Wrap(in.wrap,
         CASE in.c = 0 -> <<Def(vi, IntLit(7)), ForNameLoop(in), Var(vi)>>
           [] in.c = 1 -> <<Def(vi, IntLit(7)),
                            Block(<<Def(vi, IntLit(8)), ForNameLoop(in), Var(vi)>>),
                            Var(vi)>>
           [] in.c = 2 -> <<Def(vi, IntLit(7)),
                            Block(<<ForNameLoop(in), Var(vi)>>),
                            Var(vi)>>)

Inputs ==
    ShareInputs \cup ShadowInputs \cup DynamicInputs \cup ForInputs
    \cup TopLevelInputs \cup UndefInputs \cup IfInputs \cup TruthyInputs
    \cup IdxInputs \cup AccInputs \cup CmpInputs
    \cup BlockInputs \cup WhileInputs
    \cup ForFailInputs \cup ForNameInputs

Program(in) ==
    CASE in.kind = "share"    -> ShareProgram(in)
      [] in.kind = "shadow"   -> ShadowProgram(in)
      [] in.kind = "dynamic"  -> DynamicProgram(in)
      [] in.kind = "for"      -> ForProgram(in)
      [] in.kind = "toplevel" -> TopLevelProgram(in)
      [] in.kind = "undef"    -> UndefProgram(in)
      [] in.kind = "if"       -> IfProgram(in)
      [] in.kind = "truthy"   -> TruthyProgram(in)
      [] in.kind = "idx"      -> IdxProgram(in)
      [] in.kind = "acc"      -> AccProgram(in)
      [] in.kind = "cmp"      -> CmpProgram(in)
      [] in.kind = "block"    -> BlockProgram(in)
      [] in.kind = "while"    -> WhileProgram(in)
      [] in.kind = "forfail"  -> ForFailProgram(in)
      [] in.kind = "forname"  -> ForNameProgram(in)

----------------------------------------------------------------------------
(* The run: the loop over the children of ROOT (lines 850-853) and the     *)
(* exposure of SCOPE (line 855).                                           *)

Init ==
    /\ input \in Inputs
    /\ ROOT = Program(input)
    /\ SCOPE = [global |-> EmptyMap, local |-> EmptyMap]
    /\ heap = [cells |-> <<>>, lists |-> <<>>, objs |-> <<>>, funcs |-> <<>>]
    /\ console = [log |-> <<>>, error |-> <<>>]
    /\ trace = <<>>
    /\ pc = 1
    /\ exposed = FALSE

\* The machine a top-level element starts on.
Machine ==
    [cells |-> heap.cells, lists |-> heap.lists, objs |-> heap.objs,
     funcs |-> heap.funcs, log |-> console.log, trace |-> trace, steps |-> 0,
     depth |-> 0]

\* A loop without the try: the first throw ends it.
afterElement_stopsOnError(i, err) == IF err # "" THEN Len(ROOT) + 1 ELSE i + 1

\* The loop goes on to the next element whether or not this one threw.
afterElement(i, err) == i + 1

\* One pass of the loop: try { handleElement(element, SCOPE) }
\* catch (error) { console.error(error) }
RunElement ==
    /\ pc <= Len(ROOT)
    /\ \E r \in {handleElement(<<pc>>, SCOPE, Machine)} :
        /\ SCOPE' = r.scope
        /\ heap' = [cells |-> r.m.cells, lists |-> r.m.lists,
                    objs |-> r.m.objs, funcs |-> r.m.funcs]
        /\ console' = [log |-> r.m.log,
                       error |-> IF r.err # ""
                                 THEN Append(console.error, [at |-> pc, err |-> r.err])
                                 ELSE console.error]
        /\ trace' = r.m.trace
        /\ pc' = afterElement(pc, r.err)
    /\ UNCHANGED <<ROOT, exposed, input>>

\* window.SCOPE = SCOPE
Expose ==
    /\ pc > Len(ROOT)
    /\ ~exposed
    /\ exposed' = TRUE
    /\ UNCHANGED <<ROOT, SCOPE, heap, console, trace, pc, input>>

Next == RunElement \/ Expose

Spec == Init /\ [][Next]_vars

----------------------------------------------------------------------------
(* Reading the trace.                                                      *)

Finished == pc > Len(ROOT)

\* The returns (and throws) of the element at path, in order.
ExitsOf(path) == SelectSeq(trace, LAMBDA e : e.ev = "exit" /\ e.path = path)

\* The entries to the element at path, in order.
EntersOf(path) == SelectSeq(trace, LAMBDA e : e.ev = "enter" /\ e.path = path)

\* The element at path returned exactly once, without an error, value v.
Returned(path, v) ==
    /\ Len(ExitsOf(path)) = 1
    /\ ExitsOf(path)[1].err = ""
    /\ ExitsOf(path)[1].val = v

\* The element at path was evaluated exactly once and threw err.
Threw(path, err) ==
    /\ Len(ExitsOf(path)) = 1
    /\ ExitsOf(path)[1].err = err

\* The cell a scope resolves a name to: local first, then global; 0 if none.
Resolve(scope, name) ==
    IF Has(scope.local, name) THEN scope.local[name]
    ELSE IF Has(scope.global, name) THEN scope.global[name]
    ELSE 0

----------------------------------------------------------------------------
(* The claims.                                                             *)

\* C1 (cell sharing): with x defined in a scope and assigned by MUT inside
\* nested BLOCKs that define no x of their own, the MUT writes the very cell
\* the DEF created, at every depth, and the VAR lookup of x in the defining
\* scope after the block returns the value the MUT wrote.
C1_CellSharing ==
    (input.kind = "share" /\ Finished) =>
        LET def == WrapPath(input.wrap, 1)
            mut == NestPath(WrapPath(input.wrap, 2), input.depth)
            var == WrapPath(input.wrap, 3)
        IN  /\ Returned(mut, Num(input.b))
            /\ Resolve(EntersOf(mut)[1].scope, vx) = Resolve(ExitsOf(def)[1].scope, vx)
            /\ Resolve(EntersOf(mut)[1].scope, vx) # 0
            /\ Returned(var, Num(input.b))
            /\ Len(heap.cells) = 1

\* A run of C1's case: the MUT sits MaxDepth BLOCKs deep and wrote a value
\* other than the defined one, and the lookup has returned.
C1_Witness ==
    /\ input.kind = "share" /\ input.depth = MaxDepth /\ input.a # input.b
    /\ Finished
    /\ Returned(WrapPath(input.wrap, 3), Num(input.b))

\* C2 (shadowing): a BLOCK's own DEF of x makes a new cell; the lookup in
\* the block after it returns that cell's value, MUT, INC and DEC of x in
\* the block write only that cell, and after the block the outer x is
\* unchanged.
ShadowExpected(in) ==
    CASE in.c = 0 -> in.b
      [] in.c = 1 -> 7
      [] in.c = 2 -> in.b + 1
      [] in.c = 3 -> in.b - 1

C2_Shadowing ==
    (input.kind = "shadow" /\ Finished) =>
        LET block == WrapPath(input.wrap, 2)
            inner == NestPath(block \o <<3>>, input.depth - 1)
            outer == WrapPath(input.wrap, 3)
            odef  == WrapPath(input.wrap, 1)
            idef  == block \o <<1>>
        IN  /\ Returned(inner, Num(ShadowExpected(input)))
            /\ Returned(outer, Num(input.a))
            /\ Resolve(ExitsOf(idef)[1].scope, vx) # Resolve(ExitsOf(odef)[1].scope, vx)
            /\ heap.cells[Resolve(ExitsOf(odef)[1].scope, vx)] = Num(input.a)
            /\ heap.cells[Resolve(ExitsOf(idef)[1].scope, vx)] = Num(ShadowExpected(input))
            /\ Len(heap.cells) = 2

\* A run of C2's case: the block changed its own x by INC after defining it
\* with another value than the outer one, and the outer lookup has returned.
C2_Witness ==
    /\ input.kind = "shadow" /\ input.c = 2 /\ input.a # input.b
    /\ input.a # input.b + 1 /\ input.depth = MaxDepth
    /\ Finished
    /\ Returned(WrapPath(input.wrap, 3), Num(input.a))
    /\ heap.cells[2] = Num(input.b + 1)

\* C3 (dynamic function environment): a function holds its parameters and
\* its body only; the free variable x of the body resolves to the cell x
\* has at the call site, so the call in the block with its own x = b
\* returns b, whatever x was where FUNC was evaluated; the call where no
\* block x is in sight returns the enclosing x, or fails when there is none.
C3_DynamicEnvironment ==
    (input.kind = "dynamic" /\ Finished) =>
        LET site == NestPath(WrapPath(input.wrap, 3), input.depth - 1)
            call == site \o <<2>>
            last == WrapPath(input.wrap, 4)
            body == IF input.c = 0 THEN WrapPath(input.wrap, 2) \o <<2, 2>>
                    ELSE WrapPath(input.wrap, 2) \o <<2, 2, 2>>
        IN  /\ Returned(call, Num(input.b))
            /\ Len(EntersOf(body)) = 2
            /\ Resolve(EntersOf(body)[1].scope, vx)
                  = Resolve(ExitsOf(site \o <<1>>)[1].scope, vx)
            /\ IF input.c = 0
               THEN /\ Returned(last, Num(input.a))
                    /\ Resolve(EntersOf(body)[2].scope, vx)
                          = Resolve(ExitsOf(WrapPath(input.wrap, 1))[1].scope, vx)
               ELSE /\ Threw(last, "UndefinedVariable")
                    /\ Resolve(EntersOf(body)[2].scope, vx) = 0
            /\ \A i \in 1..Len(heap.funcs) :
                  DOMAIN heap.funcs[i] = {"parameters", "operation"}

\* A run of C3's case: the caller's x differs from the definer's and the
\* call has returned the caller's.
C3_Witness ==
    /\ input.kind = "dynamic" /\ input.a # input.b /\ input.depth = MaxDepth
    /\ Finished
    /\ Returned(NestPath(WrapPath(input.wrap, 3), input.depth - 1) \o <<2>>,
                Num(input.b))

\* C4 (FOR): with a name that has no cell before the loop and step > 0,
\* the body runs once for each of start, start + step, ... up to stop
\* inclusive, in that order, and sees the current value through the name;
\* the loop's array holds what the body printed; afterwards the name has no
\* cell and a lookup throws.  for(i, 1, 3, 1, print(i)) gives ["1","2","3"].
ForValues(start, stop, step) ==
    IF start > stop THEN <<>>
    ELSE [j \in 1..((stop - start) \div step + 1) |-> start + (j - 1) * step]

C4_ForLoop ==
    (input.kind = "for" /\ Finished) =>
        LET for    == WrapPath(input.wrap, 1)
            body   == for \o <<5>>
            values == ForValues(input.a, input.b, input.c)
            printed == [j \in 1..Len(values) |-> Str(IntToString(values[j]))]
        IN  /\ Len(EntersOf(body)) = Len(values)
            /\ [j \in 1..Len(values) |-> ExitsOf(body \o <<1>>)[j].val]
                  = [j \in 1..Len(values) |-> Num(values[j])]
            /\ [j \in 1..Len(values) |-> ExitsOf(body)[j].val] = printed
            /\ console.log = [j \in 1..Len(values) |-> printed[j].s]
            /\ Len(ExitsOf(for)) = 1
            /\ ExitsOf(for)[1].err = ""
            /\ ExitsOf(for)[1].val.t = "list"
            /\ heap.lists[ExitsOf(for)[1].val.n] = printed
            /\ Resolve(ExitsOf(for)[1].scope, vi) = 0
            /\ Threw(WrapPath(input.wrap, 2), "UndefinedVariable")
            /\ (input.a = 1 /\ input.b = 3 /\ input.c = 1) =>
                  heap.lists[ExitsOf(for)[1].val.n]
                     = <<Str(<<"1">>), Str(<<"2">>), Str(<<"3">>)>>

\* A run of C4's case: for(i, 1, 3, 1, print(i)) has returned its three
\* strings and the lookup of i after it has thrown.
C4_Witness ==
    /\ input.kind = "for" /\ input.a = 1 /\ input.b = 3 /\ input.c = 1
    /\ Finished
    /\ Len(EntersOf(WrapPath(input.wrap, 1) \o <<5>>)) = 3
    /\ heap.lists = <<<<Str(<<"1">>), Str(<<"2">>), Str(<<"3">>)>>>>
    /\ Threw(WrapPath(input.wrap, 2), "UndefinedVariable")

\* C5 (top-level failure isolation): the children of ROOT are evaluated one
\* after another, each once, in document order, whether or not an earlier
\* one threw; every throw is caught and reported; each element starts on
\* the root scope as the element before it left it, and SCOPE is that scope
\* after the run.  In the top-level programs the elements after the
\* throwing one find the earlier bindings.
TopEnters == SelectSeq(trace, LAMBDA e : e.ev = "enter" /\ Len(e.path) = 1)
TopExits  == SelectSeq(trace, LAMBDA e : e.ev = "exit" /\ Len(e.path) = 1)

\* The element number k of the four good ones, with the thrower at d.
GoodPath(k, d) == IF k < d THEN <<k>> ELSE <<k + 1>>

C5_TopLevelIsolation ==
    /\ [k \in 1..Len(TopEnters) |-> TopEnters[k].path] = [k \in 1..(pc - 1) |-> <<k>>]
    /\ [k \in 1..Len(TopExits) |-> TopExits[k].path] = [k \in 1..(pc - 1) |-> <<k>>]
    /\ console.error =
          [k \in 1..Len(SelectSeq(TopExits, LAMBDA e : e.err # "")) |->
              [at  |-> SelectSeq(TopExits, LAMBDA e : e.err # "")[k].path[1],
               err |-> SelectSeq(TopExits, LAMBDA e : e.err # "")[k].err]]
    /\ \A k \in 1..(pc - 1) :
          TopEnters[k].scope = IF k = 1 THEN [global |-> EmptyMap, local |-> EmptyMap]
                               ELSE TopExits[k - 1].scope
    /\ pc > 1 => SCOPE = TopExits[pc - 1].scope
    /\ (input.kind = "toplevel" /\ Finished) =>
          /\ pc = 6
          /\ Threw(<<input.depth>>, ThrowerError(input.c))
          /\ console.error = <<[at |-> input.depth, err |-> ThrowerError(input.c)]>>
          /\ Returned(GoodPath(1, input.depth), Num(input.a))
          /\ Returned(GoodPath(2, input.depth), Num(input.b))
          /\ Returned(GoodPath(3, input.depth), Num(input.a))
          /\ Returned(GoodPath(4, input.depth), Num(input.b))
          /\ {vx, vy} \subseteq DOMAIN SCOPE.local
          /\ heap.cells[SCOPE.local[vx]] = Num(input.a)
          /\ heap.cells[SCOPE.local[vy]] = Num(input.b)

\* A run of C5's case: the first element threw, the four after it were
\* evaluated and the run is over with SCOPE exposed.
C5_Witness ==
    /\ input.kind = "toplevel" /\ input.depth = 1
    /\ exposed
    /\ Len(console.error) = 1
    /\ Returned(<<5>>, Num(input.b))

\* C6 (undefined variable): VAR, MUT, INC and DEC on a name with no cell in
\* scope.local or scope.global throw UndefinedVariable; no scope gets a
\* binding for the name then or later, no cell is made and no cell's value
\* changes.
C6_UndefinedVariable ==
    (input.kind = "undef" /\ Finished) =>
        LET op == NestPath(WrapPath(input.wrap, 3), input.depth) IN
        /\ Threw(op, "UndefinedVariable")
        /\ Resolve(EntersOf(op)[1].scope, vy) = 0
        /\ heap.cells = IF input.b = 0 THEN <<Num(input.a)>>
                        ELSE <<Num(input.a), Num(input.b)>>
        /\ \A k \in 1..Len(trace) :
              (\E j \in 1..k : trace[j].ev = "enter" /\ trace[j].path = op)
                 => Resolve(trace[k].scope, vy) = 0
        /\ Resolve(SCOPE, vy) = 0
        /\ input.wrap = 0 =>
              /\ DOMAIN SCOPE.local = {vx}
              /\ Returned(<<4>>, Num(input.a))
              /\ console.error = <<[at |-> 3, err |-> "UndefinedVariable"]>>

\* A run of C6's case: a MUT of the unbound name, MaxDepth BLOCKs deep, has
\* thrown, after a BLOCK that had a cell of that name ended.
C6_Witness ==
    /\ input.kind = "undef" /\ input.c = 1 /\ input.depth = MaxDepth /\ input.b = 1
    /\ Finished
    /\ Threw(NestPath(WrapPath(input.wrap, 3), input.depth), "UndefinedVariable")

\* The truthiness of the host language: null, undefined, NaN, false, 0 and
\* the empty string are falsy; every array, object and function is truthy.
IsTruthy(v) ==
    /\ v.t \notin {"null", "undefined", "nan"}
    /\ v.t = "bool" => v.n = 1
    /\ v.t = "num" => v.n # 0
    /\ v.t = "str" => Len(v.s) > 0

IsIf(path) ==
    /\ NodeAt(path).tag = "IF"
    /\ childElementCount(NodeAt(path)) >= 2

Parent(path) == SubSeq(path, 1, Len(path) - 1)

IsEvent(k, ev, path) ==
    /\ k \in 1..Len(trace)
    /\ trace[k].ev = ev
    /\ trace[k].path = path

\* C7 (IF laziness): every evaluation of an IF evaluates its condition
\* first and once; a truthy condition is followed by the then operand and a
\* falsy one by the else operand (or by the IF's return when there is
\* none), and the operand's return is followed by the IF's return, so never
\* both operands are evaluated.  In the IF programs the operand that is not
\* selected neither throws nor writes x.
IfExpectedX(in) ==
    CASE in.a = 1 -> IF in.b = 2 THEN 5 ELSE 1
      [] in.a = 0 -> IF in.c = 2 THEN 6 ELSE 1
      [] in.a = 2 -> IF in.c = 1 THEN 1
                     ELSE IF in.b = 2 THEN 5
                     ELSE IF in.c = 2 THEN 6 ELSE 1

C7_IfLaziness ==
    /\ \A k \in 1..Len(trace) :
          LET e == trace[k] IN
          /\ (e.ev = "enter" /\ IsIf(e.path)) => IsEvent(k + 1, "enter", e.path \o <<1>>)
          /\ (Len(e.path) > 1 /\ IsIf(Parent(e.path))) =>
                LET p == Parent(e.path)
                    c == e.path[Len(e.path)]
                IN  /\ (e.ev = "enter" /\ c = 1) => IsEvent(k - 1, "enter", p)
                    /\ (e.ev = "exit" /\ c = 1) =>
                          IF e.err # "" THEN IsEvent(k + 1, "exit", p)
                          ELSE IF IsTruthy(e.val) THEN IsEvent(k + 1, "enter", p \o <<2>>)
                          ELSE IF childElementCount(NodeAt(p)) >= 3
                               THEN IsEvent(k + 1, "enter", p \o <<3>>)
                               ELSE IsEvent(k + 1, "exit", p)
                    /\ (e.ev = "enter" /\ c = 2) =>
                          /\ IsEvent(k - 1, "exit", p \o <<1>>)
                          /\ IsTruthy(trace[k - 1].val)
                    /\ (e.ev = "enter" /\ c = 3) =>
                          /\ IsEvent(k - 1, "exit", p \o <<1>>)
                          /\ ~IsTruthy(trace[k - 1].val)
                    /\ (e.ev = "exit" /\ c \in {2, 3}) =>
                          /\ IsEvent(k + 1, "exit", p)
                          /\ trace[k + 1].val = e.val
                          /\ trace[k + 1].err = e.err
    /\ (input.kind = "if" /\ Finished) =>
          LET if == NestPath(WrapPath(input.wrap, 2), input.depth) IN
          /\ heap.cells[1] = Num(IfExpectedX(input))
          /\ input.a = 1 =>
                /\ EntersOf(if \o <<3>>) = <<>>
                /\ Len(EntersOf(if \o <<1>>)) = 1
                /\ Len(EntersOf(if \o <<2>>)) = 1
                /\ input.b = 0 => Returned(if, Str(<<"t">>))
                /\ input.b = 2 => Returned(if, Num(5))
          /\ input.a = 0 =>
                /\ EntersOf(if \o <<2>>) = <<>>
                /\ Len(EntersOf(if \o <<1>>)) = 1
                /\ input.c = 0 => Returned(if, Str(<<"e">>))
                /\ input.c = 2 => Returned(if, Num(6))

\* A run of C7's case: the condition was truthy, the else operand is a
\* lookup that would throw, and the IF returned its then operand's value.
C7_Witness ==
    /\ input.kind = "if" /\ input.a = 1 /\ input.b = 0 /\ input.c = 1
    /\ input.depth = MaxDepth
    /\ Finished
    /\ Returned(NestPath(WrapPath(input.wrap, 2), input.depth), Str(<<"t">>))
    /\ console.error = <<>>

\* The IF of a truthiness program and the value of its condition.
TruthyIf == NestPath(WrapPath(input.wrap, 1), input.depth)

ConditionValue == ExitsOf(TruthyIf \o <<1>>)[1].val

\* The rule as the claim states it: an empty array or object is falsy.
ClaimedTruthy(v) ==
    CASE v.t \in {"null", "undefined"} -> FALSE
      [] v.t = "bool" -> v.n = 1
      [] v.t = "num"  -> v.n # 0
      [] v.t = "str"  -> Len(v.s) > 0
      [] v.t = "list" -> Len(heap.lists[v.n]) > 0
      [] v.t = "obj"  -> Len(heap.objs[v.n]) > 0
      [] v.t = "func" -> TRUE

\* The IF of a truthiness program selected the then operand: it evaluated
\* it and not the else operand, and returned its value.
SelectedThen ==
    /\ Len(EntersOf(TruthyIf \o <<2>>)) = 1
    /\ EntersOf(TruthyIf \o <<3>>) = <<>>
    /\ Returned(TruthyIf, Str(<<"t">>))

\* It selected the else operand, or returned no value (undefined) when
\* there is none.
SelectedElse ==
    /\ EntersOf(TruthyIf \o <<2>>) = <<>>
    /\ IF input.c = 1
       THEN /\ Len(EntersOf(TruthyIf \o <<3>>)) = 1
            /\ Returned(TruthyIf, Str(<<"e">>))
       ELSE Returned(TruthyIf, Undefined)

\* C8 as stated (truthiness in IF): the then operand is selected exactly
\* when the condition is truthy under Null = false, Bool = itself, Number =
\* nonzero, String = non-empty, List/Object = non-empty, Function = true.
C8_AsStated ==
    (input.kind = "truthy" /\ Finished /\ ConditionValue.t # "nan") =>
        IF ClaimedTruthy(ConditionValue) THEN SelectedThen ELSE SelectedElse

\* C8 as amended: the then operand is selected exactly when the condition
\* is truthy under Null = false, Bool = itself, Number = nonzero and not
\* NaN, String = non-empty, List, Object and Function = true, empty or not;
\* a condition that is an empty List or an empty Object selects the then
\* operand.  Otherwise the else operand is selected, and without one the IF
\* returns no value.
C8_Truthiness ==
    (input.kind = "truthy" /\ Finished) =>
        /\ Len(ExitsOf(TruthyIf \o <<1>>)) = 1
        /\ ExitsOf(TruthyIf \o <<1>>)[1].err = ""
        /\ IF IsTruthy(ConditionValue) THEN SelectedThen ELSE SelectedElse
        /\ ConditionValue.t \in {"list", "obj", "func"} => SelectedThen

\* A run of C8's case: the condition was an empty array and the IF returned
\* its then operand.
C8_Witness ==
    /\ input.kind = "truthy" /\ Finished
    /\ ConditionValue.t = "list"
    /\ heap.lists[ConditionValue.n] = <<>>
    /\ SelectedThen

\* C9 (IDX write with aliasing): x and y hold the same array.  With the
\* index in range, idx through y writes that array in place and returns the
\* new value, so the read through x sees it and the other elements are as
\* before; out of range it throws IndexOutOfBounds, the array is as before
\* and the new value's operand is not evaluated.
C9_IdxAliasing ==
    (input.kind = "idx" /\ Finished) =>
        LET idx  == WrapPath(input.wrap, 4)
            read == WrapPath(input.wrap, 6)
            n    == input.depth
            old  == [k \in 1..n |-> Num(Original(n)[k])]
        IN  /\ heap.cells[1] = ListRef(1)
            /\ heap.cells[2] = ListRef(1)
            /\ IF 0 <= input.a /\ input.a < n
               THEN /\ Returned(idx, Num(input.b))
                    /\ Len(EntersOf(idx \o <<3>>)) = 1
                    /\ heap.cells[3] = Num(input.b)
                    /\ heap.lists = <<[old EXCEPT ![input.a + 1] = Num(input.b)]>>
                    /\ Returned(read, Num(input.b))
               ELSE /\ Threw(idx, "IndexOutOfBounds")
                    /\ EntersOf(idx \o <<3>>) = <<>>
                    /\ heap.cells[3] = Num(0)
                    /\ heap.lists = <<old>>
                    /\ input.wrap = 0 => Threw(read, "IndexOutOfBounds")

\* A run of C9's case: the last element of an array of MaxLen elements was
\* written through y and read through x.
C9_Witness ==
    /\ input.kind = "idx" /\ input.depth = MaxLen /\ input.a = MaxLen - 1
    /\ Finished
    /\ Returned(WrapPath(input.wrap, 4), Num(input.b))
    /\ Returned(WrapPath(input.wrap, 6), Num(input.b))
    /\ heap.lists[1][MaxLen] = Num(input.b)

\* The FOR of an accumulation program or of a FOR program.
LoopPath == WrapPath(input.wrap, IF input.kind = "acc" THEN 2 ELSE 1)

\* The results of the loop body, pass by pass.
PassResults == [j \in 1..Len(ExitsOf(LoopPath \o <<5>>)) |-> ExitsOf(LoopPath \o <<5>>)[j].val]

\* C10 (FOR result accumulation): the array FOR returns holds, in pass
\* order, the body's result of every pass whose result is not null, and
\* nothing else; 0, the empty string and false are in it.
C10_AsStated ==
    (input.kind \in {"acc", "for"} /\ Finished) =>
        /\ Len(ExitsOf(LoopPath)) = 1
        /\ ExitsOf(LoopPath)[1].err = ""
        /\ heap.lists[ExitsOf(LoopPath)[1].val.n]
              = SelectSeq(PassResults, LAMBDA v : v.t \notin {"null", "undefined"})

----------------------------------------------------------------------------
(* Comparisons.                                                            *)

\* The operand values given to the comparison of a cmp program.
CmpGiven == SelectSeq(<<input.a, input.b, input.c>>, LAMBDA k : k # 0)

\* The value operand value k of CmpValues evaluates to.
CmpValue(k) == IF k = 4 THEN Str(<<"1">>) ELSE Num(k - 1)

\* The number the ordering operators take operand value k for: the string
\* "1" is compared as the number 1.
CmpOrder(k) == IF k = 4 THEN 1 ELSE k - 1

\* Whether operand value p stands to operand value q as comparison op asks;
\* two operand values are strictly equal only when they are the same one.
CmpHolds(op, p, q) ==
    CASE op = 1 -> p = q
      [] op = 2 -> p # q
      [] op = 3 -> CmpOrder(p) > CmpOrder(q)
      [] op = 4 -> CmpOrder(p) >= CmpOrder(q)
      [] op = 5 -> CmpOrder(p) < CmpOrder(q)
      [] op = 6 -> CmpOrder(p) <= CmpOrder(q)

\* Where in the trace the element at path returned (it did so once).
ExitAt(path) ==
    CHOOSE i \in 1..Len(trace) : trace[i].ev = "exit" /\ trace[i].path = path

\* C11 (n-ary comparisons): a comparison with fewer than 2 operands throws
\* the arity error without evaluating an operand; with 2 or more operands
\* every operand is evaluated exactly once, in order, before the comparison
\* returns, so each operand's write is seen after it even when the first
\* pair already decides; the result is true iff the first operand stands
\* in the relation to every other operand (EQ: all strictly equal to the
\* first; NE: none equal to the first; GT, GTE, LT, LTE: the first against
\* each), which with exactly 2 operands is the pairwise result.
C11_NaryComparison ==
    (input.kind = "cmp" /\ Finished) =>
        LET cmp == WrapPath(input.wrap, 4)
            n   == Len(CmpGiven)
            after(j) == ExitsOf(WrapPath(input.wrap, 4 + j))[1].val
        IN  IF n < 2
            THEN /\ Threw(cmp, "ArityError")
                 /\ \A j \in 1..n : EntersOf(cmp \o <<j>>) = <<>>
                 /\ heap.cells = <<Num(9), Num(9), Num(9)>>
                 /\ input.wrap = 0 => \A j \in 1..3 : after(j) = Num(9)
            ELSE /\ Returned(cmp, Bool(\A j \in 2..n :
                                CmpHolds(input.depth, CmpGiven[1], CmpGiven[j])))
                 /\ \A j \in 1..n :
                       /\ Len(EntersOf(cmp \o <<j>>)) = 1
                       /\ Returned(cmp \o <<j>>, CmpValue(CmpGiven[j]))
                       /\ ExitAt(cmp \o <<j>>) < ExitAt(cmp)
                       /\ j > 1 => ExitAt(cmp \o <<j - 1>>) < ExitAt(cmp \o <<j>>)
                 /\ \A j \in 1..3 :
                       /\ after(j) = IF j <= n THEN CmpValue(CmpGiven[j]) ELSE Num(9)
                       /\ heap.cells[j] = after(j)

\* A run of C11's case: a comparison of three operands that is false at the
\* first pair (2 against 0 under LT) has returned false, and the write of
\* its third operand is there afterwards.
C11_Witness ==
    /\ input.kind = "cmp" /\ Finished
    /\ input.depth = 5 /\ input.a = 3 /\ input.b = 1 /\ input.c = 2
    /\ Returned(WrapPath(input.wrap, 4), Bool(FALSE))
    /\ Returned(WrapPath(input.wrap, 7), Num(1))

----------------------------------------------------------------------------
(* Blocks.                                                                 *)

\* The BLOCK of a block program and the number of its operands.
BlockPath == NestPath(WrapPath(input.wrap, 2), input.depth)
BlockArity == childElementCount(NodeAt(BlockPath))

\* The BLOCK's operands were evaluated once each, in order, in one
\* environment: a copy of the BLOCK's own (every name it resolves, as
\* outer names, and no local name) made when the BLOCK was entered, and
\* handed on from each operand to the next as that operand left it.
BlockOperandsInOrder ==
    LET enter(j) == EntersOf(BlockPath \o <<j>>)[1]
        exit(j)  == ExitsOf(BlockPath \o <<j>>)[1]
    IN  /\ \A j \in 1..BlockArity :
              /\ Len(EntersOf(BlockPath \o <<j>>)) = 1
              /\ Len(ExitsOf(BlockPath \o <<j>>)) = 1
              /\ exit(j).err = ""
              /\ j > 1 => enter(j).scope = exit(j - 1).scope
              /\ j > 1 => ExitAt(BlockPath \o <<j - 1>>) < ExitAt(BlockPath \o <<j>>)
        /\ BlockArity > 0 =>
              /\ enter(1).scope.local = EmptyMap
              /\ \A name \in {vx, vy, vz} :
                    Resolve(enter(1).scope, name)
                        = Resolve(EntersOf(BlockPath)[1].scope, name)
              /\ ExitAt(BlockPath \o <<BlockArity>>) < ExitAt(BlockPath)

\* The value the last operand of the BLOCK of a block program should give.
BlockExpected ==
    CASE input.c = 3 -> Num(input.a)
      [] input.c = 4 -> Num(input.b)
      [] input.c = 5 -> Num(input.a)
      [] input.c = 6 -> Null

\* C12 as stated: a BLOCK returns the value of its last operand, and Null
\* when it has no operands.
C12_AsStated ==
    (input.kind = "block" /\ Finished) =>
        /\ BlockOperandsInOrder
        /\ Returned(BlockPath, IF BlockArity = 0 THEN Null ELSE BlockExpected)

\* C12 (BLOCK result): a BLOCK evaluates its operands once each, in order,
\* in one freshly copied environment and returns the value of the last one
\* (Null when that operand gives Null); a BLOCK without operands returns
\* its text resolved as a literal: the empty string for an empty BLOCK, the
\* text itself when it is blank, a number when it is numeric.  Its own
\* environment is as before: a DEF inside is not bound after it, a MUT of
\* an outer name is seen after it.
C12_BlockResult ==
    (input.kind = "block" /\ Finished) =>
        /\ BlockOperandsInOrder
        /\ Returned(BlockPath,
                    CASE input.c = 0 -> Str(<<>>)
                      [] input.c = 1 -> Str(<<" ">>)
                      [] input.c = 2 -> Num(7)
                      [] OTHER -> BlockExpected)
        /\ BlockArity > 0 =>
              ExitsOf(BlockPath)[1].val = ExitsOf(BlockPath \o <<BlockArity>>)[1].val
        /\ ExitsOf(BlockPath)[1].scope = EntersOf(BlockPath)[1].scope
        /\ Returned(WrapPath(input.wrap, 3), Num(IF input.c = 5 THEN input.b ELSE 0))
        /\ Threw(WrapPath(input.wrap, 4), "UndefinedVariable")

\* A run of C12's case: an empty BLOCK has returned the empty string, not
\* Null, and the run went on to its end.
C12_Witness ==
    /\ input.kind = "block" /\ input.c = 0 /\ Finished
    /\ BlockArity = 0
    /\ Returned(BlockPath, Str(<<>>))
    /\ Threw(WrapPath(input.wrap, 4), "UndefinedVariable")

----------------------------------------------------------------------------
(* Environments.                                                           *)

\* For entry k of the trace: when it is the entry to a call, the trace
\* index of the entry to the call that made it (0 when the top-level loop
\* made it); when it is an exit, the index of the entry it answers.  The
\* call that made a call at depth d is the last one entered before it at
\* depth d - 1.
FrameOf(k) ==
    LET d == IF trace[k].ev = "enter" THEN trace[k].depth - 1 ELSE trace[k].depth
        before == {q \in 1..(k - 1) : trace[q].ev = "enter" /\ trace[q].depth = d}
    IN  IF before = {} THEN 0 ELSE CHOOSE q \in before : \A o \in before : o <= q

Frames == [k \in 1..Len(trace) |-> FrameOf(k)]

\* Entry k of the trace enters a pass of the body of the FOR entered at p.
IsForPass(k, p) ==
    /\ NodeAt(trace[p].path).tag = "FOR"
    /\ trace[k].path = trace[p].path \o <<5>>

\* Entry k of the trace enters the body of a function the CALL entered at p
\* calls: an element that is no operand of the CALL.
IsFunctionBody(k, p) ==
    /\ NodeAt(trace[p].path).tag = "CALL"
    /\ trace[k].path \notin {trace[p].path \o <<1>>, trace[p].path \o <<2>>}

\* C13 (environment invariant): whenever a handler calls handleElement on
\* an environment E copied from its own environment P, E.global holds
\* exactly the names P resolves then, each with the very cell P resolves it
\* to, the local cell for a name of both mappings of P (in a pass of a FOR
\* P has the loop name bound locally: to the local cell it had, else to a
\* cell made after the FOR was entered); E.global is still the same when
\* the call returns; and making the copy leaves the cells as they were,
\* none added and none changed.
C13_EnvironmentInvariant ==
    LET frames == Frames IN
    \A k \in 1..Len(trace) :
        LET e == trace[k] IN
        IF e.ev = "exit"
        THEN e.scope.global = trace[frames[k]].scope.global
        ELSE frames[k] # 0 =>
             LET P    == trace[frames[k]].scope
                 pass == IsForPass(k, frames[k])
                 name == NodeAt(trace[frames[k]].path \o <<1>>).text
                 made == pass /\ ~Has(P.local, name)
             IN  /\ DOMAIN e.scope.global
                       = (DOMAIN P.global) \cup (DOMAIN P.local)
                            \cup (IF pass THEN {name} ELSE {})
                 /\ \A n \in DOMAIN e.scope.global :
                       IF made /\ n = name
                       THEN e.scope.global[n] > Len(trace[frames[k]].cells)
                       ELSE e.scope.global[n] = Resolve(P, n)
                 /\ ~(pass \/ IsFunctionBody(k, frames[k])) =>
                       e.cells = trace[k - 1].cells

\* A run of C13's case: a handler whose environment binds a name in both
\* mappings, to different cells, has called handleElement on a copy, and
\* the copy has the local cell for the name.
C13_Witness ==
    /\ Finished
    /\ \E k \in 1..Len(trace) :
          /\ trace[k].ev = "enter"
          /\ Frames[k] # 0
          /\ \E n \in DOMAIN trace[Frames[k]].scope.local :
                /\ Has(trace[Frames[k]].scope.global, n)
                /\ trace[Frames[k]].scope.global[n] # trace[Frames[k]].scope.local[n]
                /\ trace[k].scope.global[n] = trace[Frames[k]].scope.local[n]

----------------------------------------------------------------------------
(* WHILE.                                                                  *)

\* The WHILE of a while program.
WhilePath == NestPath(WrapPath(input.wrap, 2), input.depth)

\* Where in the trace the element at path was entered, call by call.
EntriesAt(path) ==
    SelectSeq([i \in 1..Len(trace) |-> i],
              LAMBDA i : trace[i].ev = "enter" /\ trace[i].path = path)

\* The value the DEF of a while program writes into y on pass j.
WhileWritten(j) == IF input.c = 0 THEN Num(j) ELSE Num(input.a + 1 - j)

\* The value of y in the scope and cells of trace entry e; Undefined when
\* the scope has no local y.
LocalY(e) ==
    IF Has(e.scope.local, vy) THEN e.cells[e.scope.local[vy]] ELSE Undefined

\* C14 (WHILE shares one environment): the condition is evaluated on every
\* pass and the body on every pass whose condition was truthy, one after
\* the other; the loop ends at the first falsy condition without
\* evaluating the body on that pass.  A variable the condition or the body
\* itself defines by DEF is not bound when the first pass starts and is
\* bound, with the value last written, at every later evaluation of the
\* condition and of the body; after the WHILE it is not bound in the
\* enclosing environment, and a lookup of it there fails.
C14_WhileSharedEnvironment ==
    (input.kind = "while" /\ Finished) =>
        LET cond   == WhilePath \o <<1>>
            body   == WhilePath \o <<2>>
            passes == input.a
        IN  /\ Len(EntersOf(cond)) = passes + 1
            /\ Len(EntersOf(body)) = passes
            /\ \A j \in 1..passes :
                  /\ Truthy(ExitsOf(cond)[j].val)
                  /\ EntriesAt(cond)[j] < EntriesAt(body)[j]
                  /\ EntriesAt(body)[j] < EntriesAt(cond)[j + 1]
            /\ ExitsOf(cond)[passes + 1].err = ""
            /\ ~Truthy(ExitsOf(cond)[passes + 1].val)
            /\ LocalY(EntersOf(cond)[1]) = Undefined
            /\ \A j \in 2..(passes + 1) :
                  LocalY(EntersOf(cond)[j]) = WhileWritten(j - 1)
            /\ \A j \in 1..passes :
                  LocalY(EntersOf(body)[j])
                     = IF input.c = 1 THEN WhileWritten(j)
                       ELSE IF j = 1 THEN Undefined ELSE WhileWritten(j - 1)
            /\ Len(ExitsOf(WhilePath)) = 1
            /\ ExitsOf(WhilePath)[1].err = ""
            /\ heap.lists[ExitsOf(WhilePath)[1].val.n]
                  = [j \in 1..passes |-> WhileWritten(j)]
            /\ Resolve(ExitsOf(WhilePath)[1].scope, vy) = 0
            /\ ExitsOf(WhilePath)[1].scope = EntersOf(WhilePath)[1].scope
            /\ Threw(WrapPath(input.wrap, 3), "UndefinedVariable")

\* A run of C14's case: a WHILE whose body is a DEF of y made three passes,
\* found y bound to 2 when it evaluated its condition the third time, and
\* the lookup of y after it has failed.
C14_Witness ==
    /\ input.kind = "while" /\ input.c = 0 /\ input.a = 3 /\ Finished
    /\ Len(EntersOf(WhilePath \o <<2>>)) = 3
    /\ LocalY(EntersOf(WhilePath \o <<1>>)[3]) = Num(2)
    /\ Threw(WrapPath(input.wrap, 3), "UndefinedVariable")

----------------------------------------------------------------------------
(* FOR and its loop variable.                                              *)

\* The FOR of a forfail program, and whether a pass of it fails.
FailingFor == NestPath(<<2>>, input.depth)
PassFails == input.a <= input.b /\ input.b <= MaxStop

\* C15 (FOR failure leaves the loop variable): when the body of a FOR
\* throws on a pass, the FOR throws the same error after that pass, no
\* further pass is made, and the loop variable is still bound in the local
\* mapping of the FOR's environment, with the value of the failing pass;
\* when the FOR is a top-level element the variable is then bound in SCOPE
\* and the next top-level element looks it up with that value.  When no
\* pass throws, the FOR returns and the variable is not bound locally.
C15_ForFailureLeavesVariable ==
    (input.kind = "forfail" /\ Finished) =>
        LET exit == ExitsOf(FailingFor)[1] IN
        /\ Len(ExitsOf(FailingFor)) = 1
        /\ IF PassFails
           THEN /\ exit.err = "UndefinedVariable"
                /\ Len(EntersOf(FailingFor \o <<5>>)) = input.b - input.a + 1
                /\ ExitsOf(FailingFor \o <<5>>)[input.b - input.a + 1].err
                      = "UndefinedVariable"
                /\ Has(exit.scope.local, vi)
                /\ exit.cells[exit.scope.local[vi]] = Num(input.b)
                /\ input.depth = 0 =>
                      /\ Has(SCOPE.local, vi)
                      /\ heap.cells[SCOPE.local[vi]] = Num(input.b)
                      /\ Returned(<<3>>, Num(input.b))
           ELSE /\ exit.err = ""
                /\ ~Has(exit.scope.local, vi)
                /\ input.depth = 0 =>
                      /\ ~Has(SCOPE.local, vi)
                      /\ Threw(<<3>>, "UndefinedVariable")

\* A run of C15's case: a top-level FOR from 0 failed on the pass with
\* i = 2, and the top-level lookup of i after it has returned 2.
C15_Witness ==
    /\ input.kind = "forfail" /\ input.depth = 0 /\ input.c = 0
    /\ input.a = 0 /\ input.b = 2
    /\ Finished
    /\ Threw(FailingFor, "UndefinedVariable")
    /\ Returned(<<3>>, Num(2))

\* The FOR of a forname program and the lookup of i that follows it in the
\* same environment.
NamedFor ==
    CASE input.c = 0 -> WrapPath(input.wrap, 2)
      [] input.c = 1 -> WrapPath(input.wrap, 2) \o <<2>>
      [] input.c = 2 -> WrapPath(input.wrap, 2) \o <<1>>

LookupAfterFor ==
    CASE input.c = 0 -> WrapPath(input.wrap, 3)
      [] input.c = 1 -> WrapPath(input.wrap, 2) \o <<3>>
      [] input.c = 2 -> WrapPath(input.wrap, 2) \o <<2>>

\* C16 (FOR over a bound name): the body sees the loop counter on every
\* pass.  When the loop name is bound in the local mapping of the FOR's
\* environment, FOR writes start into that cell and makes no cell, the
\* counter runs in that cell, and after the loop the name is not bound
\* locally: the lookup that follows fails as undefined, or returns the
\* value of the outer cell of that name when there is one.  When the name
\* is bound only outside, FOR makes one cell for the counter, the outer
\* cell keeps its value throughout, and the lookup after the loop returns
\* it.
C16_ForOverBoundName ==
    (input.kind = "forname" /\ Finished) =>
        LET enter  == EntersOf(NamedFor)[1]
            exit   == ExitsOf(NamedFor)[1]
            passes == ForValues(input.a, input.b, 1)
            body   == NamedFor \o <<5>>
            last   == IF input.a > input.b THEN input.a ELSE input.b + 1
        IN  /\ Len(ExitsOf(NamedFor)) = 1
            /\ exit.err = ""
            /\ Len(EntersOf(body)) = Len(passes)
            /\ \A j \in 1..Len(passes) : ExitsOf(body)[j].val = Num(passes[j])
            /\ ~Has(exit.scope.local, vi)
            /\ IF input.c \in {0, 1}
               THEN /\ Has(enter.scope.local, vi)
                    /\ enter.cells[enter.scope.local[vi]] = Num(input.c + 7)
                    /\ Len(exit.cells) = Len(enter.cells)
                    /\ \A j \in 1..Len(passes) :
                          /\ EntersOf(body)[j].scope.global[vi] = enter.scope.local[vi]
                          /\ EntersOf(body)[j].cells[enter.scope.local[vi]]
                                = Num(passes[j])
                    /\ exit.cells[enter.scope.local[vi]] = Num(last)
                    /\ IF input.c = 0
                       THEN /\ Resolve(exit.scope, vi) = 0
                            /\ Threw(LookupAfterFor, "UndefinedVariable")
                       ELSE /\ Resolve(exit.scope, vi) = enter.scope.global[vi]
                            /\ Returned(LookupAfterFor, Num(7))
               ELSE /\ ~Has(enter.scope.local, vi)
                    /\ Has(enter.scope.global, vi)
                    /\ Len(exit.cells) = Len(enter.cells) + 1
                    /\ \A j \in 1..Len(passes) :
                          /\ EntersOf(body)[j].scope.global[vi] = Len(exit.cells)
                          /\ EntersOf(body)[j].cells[enter.scope.global[vi]] = Num(7)
                    /\ exit.cells[enter.scope.global[vi]] = Num(7)
                    /\ Resolve(exit.scope, vi) = enter.scope.global[vi]
                    /\ Returned(LookupAfterFor, Num(7))
            /\ input.c \in {1, 2} => Returned(WrapPath(input.wrap, 3), Num(7))

\* A run of C16's case: a FOR from 1 to 3 over a name bound locally to 7
\* has returned, leaving 4 in that cell and the name unbound, and the
\* lookup after it has failed.
C16_Witness ==
    /\ input.kind = "forname" /\ input.c = 0 /\ input.a = 1 /\ input.b = 3
    /\ Finished
    /\ Len(EntersOf(NamedFor \o <<5>>)) = 3
    /\ heap.cells = <<Num(4)>>
    /\ Threw(LookupAfterFor, "UndefinedVariable")

====
